---------------------------- MODULE Spec2Model ----------------------------
(***************************************************************************)
(* Model of the yabot agent execution engine (src/yabot/graph.py,          *)
(* src/yabot/commands.py, src/yabot/tools/registry.py), of its front ends  *)
(* and stream registry (src/yabot/daemon.py, cli.py, interaction.py,       *)
(* handler.py, streams.py) and of the trimmer (commands.py, tokens.py).    *)
(*                                                                         *)
(* A text is a sequence of tokens (words, " ", "\n", "\n\n", "!", ".").    *)
(* A message is a record role/content/tool_calls/tool_call_id.  A tool     *)
(* call is id/name/arguments, the arguments being the decoded form of the  *)
(* raw JSON text: valid = FALSE stands for text json.loads rejects.        *)
(***************************************************************************)
EXTENDS Integers, Sequences, FiniteSets, TLC

VARIABLES
    saved,      \* the room's checkpoint: the GraphState channels last written
    state,      \* the GraphState dict of the turn in flight (= saved when idle)
    pc,         \* "idle" | "plan" (awaiting the planner) | "llm" (awaiting a completion)
    ctx,        \* locals of _process_input / _run_plan_steps / _run_llm_loop,
                \* as the last turn left them once it returned
    request,    \* the last request sent to the LLM capability
    executed,   \* the tool calls the dispatcher ran in the current turn, in order
    turn,       \* the current turn: its number, its raw text, the completions
                \* asked so far (in the run, in the turn), the checkpoint before it
    env,        \* the run's environment: front end, files on disk, what is said
    nIn,        \* a message list handed to _normalize_messages_for_llm
    nOut,       \* its normalized form
    front,      \* the front end of the run: "daemon" | "cli" | "matrix"
    tasks,      \* the asyncio tasks of the turns the front end started
    active_streams, \* StreamRegistry._active_streams: room id -> task
    binding,    \* YabotGraph._stream_callback in each context: the bound sink
    delivered,  \* the tokens delivered: which turn's token went to which sink
    history,    \* the message history of each room as the front end's store holds it
    storage,    \* the checkpointer: checkpoint thread -> the GraphState last written
    flights,    \* the turn in flight in each room of the multi-room engine
    alone,      \* each room as it would be on an engine of its own
    file,       \* the checkpoint file of FileBackedSaver: the payload last written
    ledger,     \* an approvals record the shell grants are applied to
    applied,    \* the (command, workdir) pairs _approve_shell was applied to
    tIn,        \* a message list handed to trim_messages
    tOut,       \* its trimmed form
    tCfg,       \* the model and max_turns it is trimmed for
    stopped,    \* the stop request answered in the last step: its room, its answer,
                \* the tasks of the room then in flight, the task cancelled
    boot,       \* one call of cli_runtime.ensure_daemon: its arguments, its locals,
                \* the connection attempts made and how it ended
    gate,       \* a ledger, a tool-call batch and what _first_missing_approval
                \* returns for them
    recorded    \* how many tool calls the model has emitted for each agent

vars == <<saved, state, pc, ctx, request, executed, turn, env, nIn, nOut,
          front, tasks, active_streams, binding, delivered, history, stopped,
          storage, flights, alone, file, ledger, applied, tIn, tOut, tCfg,
          boot, gate, recorded>>

engineVars == <<saved, state, pc, ctx, request, executed, turn, env>>
normVars == <<nIn, nOut>>
frontVars == <<front, tasks, active_streams, binding, delivered, history, stopped>>

\* what each specification leaves alone
roomVars == <<storage, flights, alone, file>>
ledgerVars == <<ledger, applied>>
trimVars == <<tIn, tOut, tCfg>>
bootVars == <<boot>>
gateVars == <<gate>>
histVars == <<recorded>>
notEngine == <<normVars, frontVars, roomVars, ledgerVars, trimVars, bootVars, gateVars, histVars>>
notNorm == <<engineVars, frontVars, roomVars, ledgerVars, trimVars, bootVars, gateVars, histVars>>
notFront == <<engineVars, normVars, roomVars, ledgerVars, trimVars, bootVars, gateVars, histVars>>
notRooms == <<engineVars, normVars, frontVars, ledgerVars, trimVars, bootVars, gateVars, histVars>>
notLedger == <<engineVars, normVars, frontVars, roomVars, trimVars, bootVars, gateVars, histVars>>
notTrim == <<engineVars, normVars, frontVars, roomVars, ledgerVars, bootVars, gateVars, histVars>>
notBoot == <<engineVars, normVars, frontVars, roomVars, ledgerVars, trimVars, gateVars, histVars>>
notGate == <<engineVars, normVars, frontVars, roomVars, ledgerVars, trimVars, bootVars, histVars>>
notHist == <<saved, pc, ctx, request, executed, turn, env, normVars, frontVars, roomVars,
             ledgerVars, trimVars, bootVars, gateVars>>

---------------------------------------------------------------------------
(* Bounds of the model.                                                    *)

MaxTurnCount == 3       \* turns per run
MaxLlmCalls == 5        \* completions per run
MaxConvs == 3           \* conversation ids ever created in the room
MaxNormLen == 4         \* length of a message list given to the normalizer
MaxRoomTurns == 2       \* turns of a room of the multi-room engine
MaxRoomCalls == 2       \* completions of a room of the multi-room engine
MaxTrimLen == 4         \* length of a message list given to the trimmer
MaxTrimTurns == 2       \* largest max_turns the trimmer is run for
MaxTasks == 2
MaxRetries == 4
MaxStaleTurns == 4      \* turns of a run in the environment "stale"
MaxStaleCalls == 7      \* completions of a run in the environment "stale"
MaxToolTurns == 2       \* turns of a run in the environment "tools"
MaxToolCalls == 3       \* completions of a run in the environment "tools"
MaxRecorded == 54       \* tool calls emitted for one agent in the history specification
MaxGateLen == 3           \* turn tasks a front end starts in a run

(* Program constants.                                                      *)

max_turns == 3          \* YabotGraph(max_turns=...)
MaxPlanSteps == 8       \* _parse_plan: steps[:8]
MaxToolHistory == 50    \* agent_record_tool_calls

---------------------------------------------------------------------------
(* Sequences.                                                              *)

RECURSIVE SelectMsgs(_, _)
SelectMsgs(s, role) ==
    IF s = <<>> THEN <<>>
    ELSE IF Head(s).role = role
         THEN <<Head(s)>> \o SelectMsgs(Tail(s), role)
         ELSE SelectMsgs(Tail(s), role)

RECURSIVE RejectMsgs(_, _)
RejectMsgs(s, role) ==
    IF s = <<>> THEN <<>>
    ELSE IF Head(s).role # role
         THEN <<Head(s)>> \o RejectMsgs(Tail(s), role)
         ELSE RejectMsgs(Tail(s), role)

LastN(s, n) == IF Len(s) <= n THEN s ELSE SubSeq(s, Len(s) - n + 1, Len(s))

Range(s) == {s[i] : i \in 1..Len(s)}

IsPrefix(p, s) == Len(p) <= Len(s) /\ SubSeq(s, 1, Len(p)) = p

---------------------------------------------------------------------------
(* Texts.                                                                  *)

White == {" ", "\n", "\n\n"}

RECURSIVE LStrip(_)
LStrip(t) == IF t # <<>> /\ Head(t) \in White THEN LStrip(Tail(t)) ELSE t

RECURSIVE RStrip(_)
RStrip(t) ==
    IF t # <<>> /\ t[Len(t)] \in White THEN RStrip(SubSeq(t, 1, Len(t) - 1)) ELSE t

\* str.strip()
Strip(t) == RStrip(LStrip(t))

LowerTok(w) ==
    IF w = "Y" THEN "y" ELSE IF w = "AND" THEN "and" ELSE IF w = "Meta" THEN "meta" ELSE w

\* a reply test that takes every text for "y"
lower_to_yes(t) == <<"y">>

\* str.lower()
Lower(t) == [i \in 1..Len(t) |-> LowerTok(t[i])]

IsWord(w) == w \notin White /\ w # "!" /\ w # "."

HasNewline(t) == \E i \in 1..Len(t) : t[i] \in {"\n", "\n\n"}

NoArg == <<>>
NoCommand == [cmd |-> "", arg |-> NoArg, ok |-> FALSE]

\* a parser that takes no text for a command
parse_nothing(text) == NoCommand

\* CMD_RE = ^!([\w-]+)(?:\s+(.*))?$ ; "." does not match a newline
parse_command(text) ==
    IF Len(text) >= 2 /\ text[1] = "!" /\ IsWord(text[2])
    THEN IF Len(text) = 2
         THEN [cmd |-> LowerTok(text[2]), arg |-> NoArg, ok |-> TRUE]
         ELSE IF text[3] \in White /\ ~HasNewline(LStrip(SubSeq(text, 3, Len(text))))
              THEN [cmd |-> LowerTok(text[2]),
                    arg |-> Strip(SubSeq(text, 3, Len(text))), ok |-> TRUE]
              ELSE NoCommand
    ELSE NoCommand

Keywords == {"and", "then", "also", "plus", "after", "before", "while"}

WordCount(t) == Cardinality({i \in 1..Len(t) : t[i] \notin White})
CountTok(t, toks) == Cardinality({i \in 1..Len(t) : t[i] \in toks})

\* YabotGraph._is_complex_task
\* ("\n\n" is two newlines; a keyword counts between spaces or at either end)
_is_complex_task(text) ==
    \/ WordCount(text) >= 24
    \/ CountTok(text, {"\n"}) + 2 * CountTok(text, {"\n\n"}) >= 2
    \/ CountTok(text, {"."}) >= 2
    \/ \E i \in 1..Len(text) :
          /\ LowerTok(text[i]) \in Keywords
          /\ (i = 1 \/ text[i - 1] = " ")
          /\ (i = Len(text) \/ text[i + 1] = " ")


---------------------------------------------------------------------------
(* Paths.  A path string is a sequence of segments; a leading "/" makes it *)
(* absolute, a leading "~" is the home marker, ".." and "." are the usual  *)
(* relative segments.  A canonical path is the sequence of its directory   *)
(* names from the root.                                                    *)

Cwd == <<"w">>          \* os.getcwd()
Home == <<"h">>         \* the expansion of "~"

RECURSIVE Walk(_, _)
Walk(base, segs) ==
    IF segs = <<>> THEN base
    ELSE IF Head(segs) = ".."
         THEN Walk(IF base = <<>> THEN <<>> ELSE SubSeq(base, 1, Len(base) - 1), Tail(segs))
         ELSE IF Head(segs) = "."
              THEN Walk(base, Tail(segs))
              ELSE Walk(base \o <<Head(segs)>>, Tail(segs))

\* Path(p).expanduser().resolve(strict=False)
Resolve(p) ==
    IF p = <<>> THEN Cwd
    ELSE IF Head(p) = "/" THEN Walk(<<>>, Tail(p))
    ELSE IF Head(p) = "~" THEN Walk(Home, Tail(p))
    ELSE Walk(Cwd, p)

\* the file or directory the operating system opens for the string p
\* (os.listdir, Path.read_bytes, Path.write_text, Path.mkdir): no "~" expansion
OsResolve(p) ==
    IF p = <<>> THEN Cwd
    ELSE IF Head(p) = "/" THEN Walk(<<>>, Tail(p))
    ELSE Walk(Cwd, p)

\* str(path) of a canonical path
PathStr(c) == <<"/">> \o c

\* Path.parent
Parent(c) == IF c = <<>> THEN <<>> ELSE SubSeq(c, 1, Len(c) - 1)

\* a scope test that knows the directory itself only, not what lies under it
is_same_path(target, approved) == target = approved

\* PurePath.is_relative_to
is_relative_to(target, approved) == IsPrefix(approved, target)

---------------------------------------------------------------------------
(* JSON values and tool calls.                                             *)

NoneVal == [t |-> "none", v |-> <<>>]       \* key absent
StrVal(s) == [t |-> "str", v |-> s]         \* a JSON string
NumVal(s) == [t |-> "num", v |-> s]         \* a JSON number, v = its str()

\* str(x) for x = args.get(key, "")
StrOf(val) == val.v

\* isinstance(x, str) and x
IsNonEmptyStr(val) == val.t = "str" /\ val.v # <<>>

\* valid = the text is JSON, obj = the JSON value is an object
NoArgs == [valid |-> TRUE, obj |-> TRUE, command |-> NoneVal, workdir |-> NoneVal,
           path |-> NoneVal, question |-> NoneVal, agent |-> NoneVal, model |-> NoneVal]
BadArgs == [NoArgs EXCEPT !.valid = FALSE]
ListArgs == [NoArgs EXCEPT !.obj = FALSE]              \* the JSON text "[]"
AgentModelArgs(a, m) == [NoArgs EXCEPT !.agent = a, !.model = m]
ShellArgs(c, w) == [NoArgs EXCEPT !.command = c, !.workdir = w]
PathArgs(p) == [NoArgs EXCEPT !.path = p]
AskArgs(q) == [NoArgs EXCEPT !.question = q]

\* json.loads(raw_args), {} on JSONDecodeError
LoadArgs(arguments) == IF arguments.valid THEN arguments ELSE NoArgs

Call(id, name, arguments) == [id |-> id, name |-> name, arguments |-> arguments]

FsTools == {"list_dir", "read_file", "write_file", "create_dir"}
FileTools == {"read_file", "write_file"}
SkillTools == {"skill__demo"}               \* SkillRegistry.by_tool_name
SkillContent == <<"Use the demo approach.">>
SafeTools == {"ask_user", "agent_ask", "agent_set_model", "agent_recent_tool_calls"}

is_skill_tool(name) == name \in SkillTools

---------------------------------------------------------------------------
(* Messages.                                                               *)

Msg(role, content, tool_calls, tool_call_id) ==
    [role |-> role, content |-> content, tool_calls |-> tool_calls,
     tool_call_id |-> tool_call_id]

SystemMsg(content) == Msg("system", content, <<>>, "")
UserMsg(content) == Msg("user", content, <<>>, "")
AssistantMsg(content, tool_calls) == Msg("assistant", content, tool_calls, "")
ToolMsg(id, content) == Msg("tool", content, <<>>, id)

NoMsg == Msg("none", <<>>, <<>>, "")

\* YabotGraph._assistant_without_tool_calls (NoMsg for None)
_assistant_without_tool_calls(message) ==
    IF message = NoMsg THEN NoMsg
    ELSE IF message.role # "assistant" THEN message
    ELSE IF message.tool_calls = <<>> THEN message
    ELSE IF message.content = <<>> THEN NoMsg
    ELSE AssistantMsg(message.content, <<>>)

\* a block that takes the message at position j whatever its role
tool_block_takes_next(messages, j) == IF j <= Len(messages) THEN j + 1 ELSE j

\* the run of tool messages that starts at position j
RECURSIVE ToolBlockEnd(_, _)
ToolBlockEnd(messages, j) ==
    IF j <= Len(messages) /\ messages[j].role = "tool"
    THEN ToolBlockEnd(messages, j + 1)
    ELSE j

CallIds(tool_calls) == {tool_calls[i].id : i \in 1..Len(tool_calls)} \ {""}

\* YabotGraph._normalize_messages_for_llm, the loop from position index
RECURSIVE NormalizeFrom(_, _)
NormalizeFrom(messages, index) ==
    IF index > Len(messages) THEN <<>>
    ELSE LET msg == messages[index] IN
         IF msg.role = "assistant" /\ msg.tool_calls # <<>>
         THEN LET j == ToolBlockEnd(messages, index + 1)
                  tool_block == SubSeq(messages, index + 1, j - 1)
                  tool_ids == {tool_block[i].tool_call_id : i \in 1..Len(tool_block)} \ {""}
                  expected_ids == CallIds(msg.tool_calls)
                  stripped == _assistant_without_tool_calls(msg)
              IN  IF expected_ids # {} /\ expected_ids \subseteq tool_ids
                  THEN <<msg>> \o tool_block \o NormalizeFrom(messages, j)
                  ELSE (IF stripped # NoMsg THEN <<stripped>> ELSE <<>>)
                       \o NormalizeFrom(messages, j)
         ELSE IF msg.role = "tool"
              THEN NormalizeFrom(messages, index + 1)
              ELSE <<msg>> \o NormalizeFrom(messages, index + 1)

_normalize_messages_for_llm(messages) == NormalizeFrom(messages, 1)


---------------------------------------------------------------------------
(* Approval ledger and approval gate.                                      *)

NoRequest == [kind |-> "none", command |-> <<>>, workdir |-> NoneVal,
              dir |-> <<>>, tool_call_id |-> ""]
ShellRequest(command, workdir) ==
    [NoRequest EXCEPT !.kind = "shell", !.command = command, !.workdir = workdir]
DirRequest(dir) == [NoRequest EXCEPT !.kind = "dir", !.dir = dir]
AskRequest(id) == [NoRequest EXCEPT !.kind = "ask_user", !.tool_call_id = id]

NoPending == [request |-> NoRequest, assistant |-> NoMsg, tool_calls |-> <<>>,
              agent |-> ""]

\* YabotGraph._shell_key: f"{command}\n{workdir or ''}"
_shell_key(command, workdir) ==
    command \o <<"\n">> \o (IF workdir.t = "none" THEN <<>> ELSE StrOf(workdir))

\* YabotGraph._is_shell_approved
_is_shell_approved(approvals, command, workdir) ==
    _shell_key(command, workdir) \in approvals.shell

\* a ledger that forgets: the grant is not recorded
approve_shell_forgets(approvals, command, workdir) == approvals

\* YabotGraph._approve_shell
_approve_shell(approvals, command, workdir) ==
    [approvals EXCEPT !.shell = @ \cup {_shell_key(command, workdir)}]

\* YabotGraph._is_dir_approved
_is_dir_approved(approvals, path) ==
    LET target == Resolve(path) IN
    \E approved \in approvals.dirs :
        LET approved_path == Resolve(approved) IN
        target = approved_path \/ is_relative_to(target, approved_path)

\* a grant that takes the directory above the asked one with it
approve_dir_and_parent(approvals, path) ==
    [approvals EXCEPT !.dirs = @ \cup {PathStr(Resolve(path)), PathStr(Parent(Resolve(path)))}]

\* YabotGraph._approve_dir
_approve_dir(approvals, path) ==
    [approvals EXCEPT !.dirs = @ \cup {PathStr(Resolve(path))}]

\* a scope that is the target itself for every tool
required_dir_is_target(name, args) ==
    [has |-> IsNonEmptyStr(args.path), dir |-> Resolve(args.path.v)]

\* YabotGraph._required_dir_for_tool; has = FALSE for None
_required_dir_for_tool(name, args) ==
    IF ~IsNonEmptyStr(args.path) THEN [has |-> FALSE, dir |-> <<>>]
    ELSE LET target == Resolve(args.path.v) IN
         [has |-> TRUE, dir |-> IF name \in FileTools THEN Parent(target) ELSE target]

\* the request one call raises, NoRequest when it is skipped or covered
MissingFor(approvals, call) ==
    LET name == call.name
        args == LoadArgs(call.arguments)
        command == StrOf(args.command)
        required == _required_dir_for_tool(name, args)
    IN  IF is_skill_tool(name) \/ name \in SafeTools THEN NoRequest
        ELSE IF name = "run_shell" /\ ~_is_shell_approved(approvals, command, args.workdir)
             THEN ShellRequest(command, args.workdir)
        ELSE IF /\ name \in FsTools
                /\ required.has
                /\ ~_is_dir_approved(approvals, PathStr(required.dir))
             THEN DirRequest(PathStr(required.dir))
        ELSE NoRequest

\* a gate that looks at the first call of the batch only
first_missing_of_head(approvals, tool_calls) ==
    IF tool_calls = <<>> THEN NoRequest ELSE MissingFor(approvals, Head(tool_calls))

\* YabotGraph._first_missing_approval
RECURSIVE _first_missing_approval(_, _)
_first_missing_approval(approvals, tool_calls) ==
    IF tool_calls = <<>> THEN NoRequest
    ELSE LET missing == MissingFor(approvals, Head(tool_calls)) IN
         IF missing # NoRequest THEN missing
         ELSE _first_missing_approval(approvals, Tail(tool_calls))

\* YabotGraph._approval_prompt (the back quotes of the text are left out)
_approval_prompt(req) ==
    IF req.kind = "shell"
    THEN <<"Approve running shell command: ">> \o req.command
         \o (IF req.workdir.v # <<>>
             THEN <<" (workdir: ">> \o req.workdir.v \o <<")">> ELSE <<>>)
         \o <<"? Reply y to allow.">>
    ELSE IF req.kind = "dir"
    THEN <<"Approve access to directory ">> \o req.dir
         \o <<" (includes descendants)? Reply y to allow.">>
    ELSE <<"Approve requested action? Reply y to allow.">>

---------------------------------------------------------------------------
(* Tool dispatcher.                                                        *)

AGENT_NAMES == {"main", "meta"}
default_model == "gpt-4o-mini"
available_models == {"gpt-4o-mini", "gpt-5.2"}

\* registry.execute_tool, reached from _execute_tool_calls line 562: what the
\* call does outside the engine.  ran = a tool function was invoked (FALSE for
\* the calls lines 509-560 answer themselves); raises = the tool function
\* failed its assert (run_shell.py line 9, read_file.py line 7, write_file.py
\* line 5); for run_shell the command and workdir handed to the shell, for a
\* filesystem tool the canonical directory the operating system is asked to
\* touch
execute_tool(call) ==
    LET name == call.name
        args == call.arguments
        p == StrOf(args.path)
        target == OsResolve(p)
        none == [id |-> call.id, name |-> name, ran |-> FALSE, raises |-> FALSE,
                 command |-> <<>>, workdir |-> NoneVal, touches |-> FALSE, dir |-> <<>>]
    IN  IF ~args.valid \/ ~args.obj \/ is_skill_tool(name) \/ name \in SafeTools THEN none
        ELSE IF name = "run_shell"
             THEN [none EXCEPT !.ran = TRUE, !.raises = (StrOf(args.command) = <<>>),
                               !.command = StrOf(args.command),
                               !.workdir = args.workdir]
        ELSE IF name \in FsTools
             THEN [none EXCEPT !.ran = TRUE, !.touches = (p # <<>>),
                               !.raises = (name \in FileTools /\ p = <<>>),
                               !.dir = IF name \in FileTools THEN Parent(target) ELSE target]
        ELSE [none EXCEPT !.ran = TRUE]

\* _execute_tool_calls, lines 522-523: the agent and the model the call names
SetModelTarget(args) ==
    Lower(Strip(IF args.agent.t = "none" THEN <<"main">> ELSE StrOf(args.agent)))
SetModelName(args) == Strip(StrOf(args.model))

\* a setter that takes every model name
set_model_unchecked(st, agent, model) ==
    IF Len(agent) = 1 /\ agent[1] \in AGENT_NAMES /\ model # <<>>
    THEN [st EXCEPT !.agents[agent[1]].conversations[st.agents[agent[1]].active].model =
                        model[1]]
    ELSE st

\* commands.agent_set_model returns True; the agents of a room are those of
\* AGENT_NAMES (ensure_state) and each has an active conversation
SetModelOk(agent, model) ==
    /\ Len(model) = 1 /\ model[1] \in available_models
    /\ Len(agent) = 1 /\ agent[1] \in AGENT_NAMES

\* commands.agent_set_model: the state it leaves
agent_set_model(st, agent, model) ==
    IF SetModelOk(agent, model)
    THEN [st EXCEPT !.agents[agent[1]].conversations[st.agents[agent[1]].active].model =
                        model[1]]
    ELSE st

\* _execute_tool_calls, lines 521-533: what one call does to the room state
CallEffect(st, call) ==
    LET args == call.arguments IN
    IF /\ call.name = "agent_set_model" /\ args.valid /\ args.obj
       /\ SetModelTarget(args) # <<>> /\ SetModelName(args) # <<>>
    THEN agent_set_model(st, SetModelTarget(args), SetModelName(args))
    ELSE st

\* _execute_tool_calls: the room state after the batch
RECURSIVE BatchEffect(_, _)
BatchEffect(st, tool_calls) ==
    IF tool_calls = <<>> THEN st
    ELSE BatchEffect(CallEffect(st, Head(tool_calls)), Tail(tool_calls))

\* the result string of one call
ResultOf(call) ==
    LET args == call.arguments IN
    IF ~args.valid THEN <<"ERROR: invalid JSON arguments: ", "detail">>
    ELSE IF is_skill_tool(call.name) THEN <<"Skill applied: ", "Demo Skill">>
    ELSE IF call.name = "agent_set_model" THEN
        IF SetModelTarget(args) = <<>> \/ SetModelName(args) = <<>>
        THEN <<"ERROR: agent and model are required">>
        ELSE IF SetModelOk(SetModelTarget(args), SetModelName(args))
        THEN <<"Model set to ">> \o SetModelName(args) \o <<" for ">> \o SetModelTarget(args)
        ELSE <<"ERROR: unknown model ">> \o SetModelName(args) \o <<" or agent ">>
             \o SetModelTarget(args)
    ELSE <<"result of ", call.name>>

\* YabotGraph._execute_tool_calls: the tool messages, in batch order
RECURSIVE ToolMessages(_)
ToolMessages(tool_calls) ==
    IF tool_calls = <<>> THEN <<>>
    ELSE <<ToolMsg(Head(tool_calls).id, ResultOf(Head(tool_calls)))>>
         \o ToolMessages(Tail(tool_calls))

\* YabotGraph._execute_tool_calls: the skill system messages
RECURSIVE SkillMessages(_)
SkillMessages(tool_calls) ==
    IF tool_calls = <<>> THEN <<>>
    ELSE (IF Head(tool_calls).arguments.valid /\ is_skill_tool(Head(tool_calls).name)
          THEN <<SystemMsg(SkillContent)>> ELSE <<>>)
         \o SkillMessages(Tail(tool_calls))

\* registry.execute_tool_async: execute_tool run off the event loop
execute_tool_async(call) == execute_tool(call)

\* YabotGraph._tool_call_notices
_tool_call_notices(tool_calls) ==
    [i \in 1..Len(tool_calls) |-> <<"[system] Tool call: ", tool_calls[i].name>>]

---------------------------------------------------------------------------
(* Room state.                                                             *)

\* YabotGraph.system_prompt / meta_system_prompt as runtime.build_graph sets
\* them: the empty text stands for None
NoPrompt == <<>>
MainPrompt == <<"You are main.">>

\* YabotGraph._system_prompt_for_agent
_system_prompt_for_agent(agent_name) ==
    IF agent_name = "meta" THEN NoPrompt ELSE MainPrompt

NewConv == [model |-> default_model, messages |-> <<>>, agents_loaded |-> {}]

\* commands._init_agent_state, conv_id standing for the fresh uuid
_init_agent_state(conv_id) ==
    [active |-> conv_id, conversations |-> (conv_id :> NewConv), tool_history |-> <<>>]

\* commands.ensure_state applied to the empty checkpoint.  The room-level
\* key "conversations" is bound to the dict object of one agent: the field
\* holds the name of that agent; "active" is the room-level active id
InitialState ==
    [agents |-> [a \in AGENT_NAMES |->
                    IF a = "main" THEN _init_agent_state(1) ELSE _init_agent_state(2)],
     active_agent |-> "meta",
     active |-> 2, conversations |-> "meta",
     approvals |-> [shell |-> {}, dirs |-> {}, pending |-> NoPending],
     has_plan |-> FALSE, plan_steps |-> <<>>, plan_index |-> 0,
     responses |-> <<>>, incoming |-> <<>>]

\* commands.agent_active_conv
agent_active_conv(st, agent) ==
    st.agents[agent].conversations[st.agents[agent].active]

\* the dict that state["conversations"] is
RoomConversations(st) == st.agents[st.conversations].conversations

\* commands.room_active_conv
room_active_conv(st) == RoomConversations(st)[st.active]

\* a synchronisation that leaves the room-level keys as they are
sync_nothing(st) == st

\* commands._sync_active_agent_state (active_agent is always one of agents)
_sync_active_agent_state(st) ==
    [st EXCEPT !.active = st.agents[st.active_agent].active,
               !.conversations = st.active_agent]

\* commands.ensure_state on a state that has its agents and approvals
ensure_state(st) == _sync_active_agent_state(st)

\* commands.set_active_agent
set_active_agent(st, agent) ==
    _sync_active_agent_state([st EXCEPT !.active_agent = agent])

\* commands._set_active_conv
_set_active_conv(st, conv_id) ==
    [st EXCEPT !.active = conv_id, !.agents[st.active_agent].active = conv_id]

ConvIds(st) == UNION {DOMAIN st.agents[a].conversations : a \in AGENT_NAMES}

\* conv["messages"] = messages, for the conversation cid of agent
SetMessages(st, agent, cid, messages) ==
    [st EXCEPT !.agents[agent].conversations[cid].messages = messages]

---------------------------------------------------------------------------
(* Trimming.                                                               *)

\* tokens.context_window_for_model (models.json)
context_window_for_model(model) == IF model = "gpt-5.2" THEN 400000 ELSE 128000

Max(a, b) == IF a >= b THEN a ELSE b

\* tokens.output_reserve_tokens
output_reserve_tokens(context_window) == Max(2048, context_window \div 10)

TOKENS_PER_MESSAGE == 3
PRIMING_TOKENS == 3

\* len(encoding.encode(content)): one token per token of the text; a text
\* that begins with "<long>" or "<huge>" stands for a text of that many tokens
EncodedLen(content) ==
    IF content # <<>> /\ Head(content) = "<long>" THEN 60000
    ELSE IF content # <<>> /\ Head(content) = "<huge>" THEN 115195
    ELSE Len(content)

\* tokens.estimate_message_tokens: one token per token of each value
estimate_message_tokens(m) ==
    TOKENS_PER_MESSAGE + 1 + EncodedLen(m.content) + Len(m.tool_calls)
    + (IF m.tool_call_id = "" THEN 0 ELSE 1)

RECURSIVE SumTokens(_)
SumTokens(messages) ==
    IF messages = <<>> THEN 0
    ELSE estimate_message_tokens(Head(messages)) + SumTokens(Tail(messages))

\* tokens.estimate_messages_tokens
estimate_messages_tokens(messages) ==
    IF messages = <<>> THEN 0 ELSE SumTokens(messages) + PRIMING_TOKENS

\* an eviction loop that drops the oldest system message first
RECURSIVE drop_system_first(_, _, _)
drop_system_first(sys_msgs, other, budget) ==
    IF SumTokens(sys_msgs) + SumTokens(other) <= budget THEN sys_msgs \o other
    ELSE IF sys_msgs # <<>> THEN drop_system_first(Tail(sys_msgs), other, budget)
    ELSE IF other # <<>> THEN drop_system_first(sys_msgs, Tail(other), budget)
    ELSE <<>>

\* trim_messages, second phase: drop oldest non-system, then oldest system
RECURSIVE DropToBudget(_, _, _)
DropToBudget(sys_msgs, other, budget) ==
    IF SumTokens(sys_msgs) + SumTokens(other) <= budget THEN sys_msgs \o other
    ELSE IF other # <<>> THEN DropToBudget(sys_msgs, Tail(other), budget)
    ELSE IF sys_msgs # <<>> THEN DropToBudget(Tail(sys_msgs), other, budget)
    ELSE <<>>

\* a slice that loses its first element
slice_drops_first(s, n) == IF s = <<>> THEN s ELSE Tail(s)

\* other[-(n):]: the last n elements, and the whole list for n = 0 (-0 is 0)
LastSlice(s, n) == IF n = 0 THEN s ELSE LastN(s, n)

\* commands.trim_messages for a given input budget
TrimToBudget(messages, budget, turns) ==
    LET sys_msgs == SelectMsgs(messages, "system")
        other == RejectMsgs(messages, "system")
        keep == LastSlice(other, turns * 2)
        kept == sys_msgs \o keep
    IN  IF estimate_messages_tokens(kept) <= budget THEN kept
        ELSE DropToBudget(sys_msgs, keep, budget)

\* input_budget = max(0, context_window - reserve)
input_budget(model) ==
    LET context_window == context_window_for_model(model)
    IN  Max(0, context_window - output_reserve_tokens(context_window))

\* commands.trim_messages
trim_messages(messages, model) == TrimToBudget(messages, input_budget(model), max_turns)

---------------------------------------------------------------------------
(* System prompt and AGENTS.md injection.                                  *)

\* YabotGraph._ensure_system_prompt
_ensure_system_prompt(messages, system_prompt) ==
    IF system_prompt = NoPrompt THEN messages
    ELSE IF \E i \in 1..Len(messages) :
               messages[i].role = "system" /\ messages[i].content = system_prompt
         THEN messages
         ELSE <<SystemMsg(system_prompt)>> \o messages

\* YabotGraph._agents_message
_agents_message(directory) ==
    SystemMsg(<<"AGENTS.md instructions from ">> \o PathStr(directory) \o <<"/AGENTS.md">>)

\* YabotGraph._inject_agents_messages; files = the directories holding a
\* non-empty AGENTS.md, paths = path strings; gives the new agents_loaded and
\* the injected messages
RECURSIVE _inject_agents_messages(_, _, _)
_inject_agents_messages(files, agents_loaded, paths) ==
    IF paths = <<>> THEN [loaded |-> agents_loaded, injected |-> <<>>]
    ELSE LET directory == Resolve(Head(paths))
             hit == directory \in files /\ directory \notin agents_loaded
             rest == _inject_agents_messages(
                         files, IF hit THEN agents_loaded \cup {directory} ELSE agents_loaded,
                         Tail(paths))
         IN  [loaded |-> rest.loaded,
              injected |-> (IF hit THEN <<_agents_message(directory)>> ELSE <<>>)
                           \o rest.injected]

\* YabotGraph._agents_paths_for_tool_calls
RECURSIVE _agents_paths_for_tool_calls(_)
_agents_paths_for_tool_calls(tool_calls) ==
    IF tool_calls = <<>> THEN <<>>
    ELSE LET call == Head(tool_calls)
             args == call.arguments
             required == _required_dir_for_tool(call.name, args)
             here == IF ~args.valid THEN <<>>
                     ELSE IF call.name = "run_shell"
                          THEN (IF IsNonEmptyStr(args.workdir) THEN <<args.workdir.v>> ELSE <<>>)
                     ELSE IF call.name \in FsTools /\ required.has
                          THEN <<PathStr(required.dir)>>
                     ELSE <<>>
         IN  here \o _agents_paths_for_tool_calls(Tail(tool_calls))

---------------------------------------------------------------------------
(* Commands.                                                               *)

\* commands._new_conv_id: an id no conversation of the room has
_new_conv_id(st) ==
    CHOOSE n \in 1..(Cardinality(ConvIds(st)) + 1) : n \notin ConvIds(st)

\* commands.room_new_conv
room_new_conv(st) ==
    LET conv_id == _new_conv_id(st) IN
    _set_active_conv(
        [st EXCEPT !.agents[st.conversations].conversations = (conv_id :> NewConv) @@ @],
        conv_id)

\* commands.room_use_conv: the conversation is looked up by its id text
room_use_conv(st, arg) ==
    IF \E c \in DOMAIN RoomConversations(st) : arg = <<ToString(c)>>
    THEN [ok |-> TRUE,
          st |-> _set_active_conv(st, CHOOSE c \in DOMAIN RoomConversations(st) :
                                          arg = <<ToString(c)>>)]
    ELSE [ok |-> FALSE, st |-> st]

\* commands.handle_command: the state it leaves and the text it returns
handle_command(st, cmd, arg) ==
    LET agent == st.conversations
        cid == st.active
        same(text) == [st |-> st, text |-> text]
    IN  IF cmd \in {"help", "h", "?"} THEN same(<<"Commands:">>)
        ELSE IF cmd = "models" THEN same(<<"Available models:">>)
        ELSE IF cmd = "model" THEN
            IF arg = NoArg THEN same(<<"Usage: !model <name>">>)
            ELSE IF ~(Len(arg) = 1 /\ arg[1] \in available_models)
                 THEN same(<<"Unknown model ">> \o arg)
            ELSE [st |-> [st EXCEPT !.agents[agent].conversations[cid].model = arg[1]],
                  text |-> <<"Model set to ">> \o arg]
        ELSE IF cmd = "become" THEN
            IF arg = NoArg THEN same(<<"Usage: !become <main|meta>">>)
            ELSE IF ~(Len(arg) = 1 /\ LowerTok(arg[1]) \in AGENT_NAMES)
                 THEN same(<<"Unknown agent ">> \o arg)
            ELSE [st |-> set_active_agent(st, LowerTok(arg[1])),
                  text |-> <<"Active agent is now ", LowerTok(arg[1])>>]
        ELSE IF cmd = "new" THEN
            [st |-> room_new_conv(st),
             text |-> <<"Started new conversation for this room: ", ToString(_new_conv_id(st))>>]
        ELSE IF cmd = "list" THEN same(<<"Conversations for this room:">>)
        ELSE IF cmd = "use" THEN
            IF arg = NoArg THEN same(<<"Usage: !use <conversation_id>">>)
            ELSE IF room_use_conv(st, arg).ok
                 THEN [st |-> room_use_conv(st, arg).st,
                       text |-> <<"Switched active conversation to ">> \o arg]
            ELSE same(<<"No conversation ">> \o arg)
        ELSE IF cmd = "reset" THEN
            [st |-> SetMessages(st, agent, cid, <<>>),
             text |-> <<"Cleared memory for this room's active conversation.">>]
        ELSE IF cmd \in {"remaining-context-percentage", "remaining-context", "context"}
             THEN same(<<"Remaining context: ">>)
        ELSE same(<<"Unknown command.">>)

---------------------------------------------------------------------------
(* Planner.                                                                *)

\* str.splitlines() with each line stripped: the non-empty lines of a text
RECURSIVE Lines(_, _)
Lines(text, line) ==
    IF text = <<>> THEN (IF Strip(line) = <<>> THEN <<>> ELSE <<Strip(line)>>)
    ELSE IF Head(text) \in {"\n", "\n\n"}
         THEN (IF Strip(line) = <<>> THEN <<>> ELSE <<Strip(line)>>) \o Lines(Tail(text), <<>>)
         ELSE Lines(Tail(text), Append(line, Head(text)))

IsDigitTok(w) == w \in {"1", "2", "3"}

\* _parse_plan on one non-empty line; "-" is the text "- " when a space follows
StepOf(line) ==
    IF Len(line) >= 2 /\ line[1] = "-" /\ line[2] = " "
    THEN Strip(SubSeq(line, 3, Len(line)))
    ELSE IF /\ Len(line) >= 2 /\ IsDigitTok(line[1]) /\ line[2] = "."
            /\ Strip(SubSeq(line, 3, Len(line))) # <<>>
         THEN Strip(SubSeq(line, 3, Len(line)))
         ELSE line

\* YabotGraph._parse_plan
_parse_plan(text) ==
    LET lines == Lines(text, <<>>)
        steps == [i \in 1..Len(lines) |-> StepOf(lines[i])]
    IN  SubSeq(steps, 1, IF Len(steps) < MaxPlanSteps THEN Len(steps) ELSE MaxPlanSteps)

\* "\n- ".join(plan_steps)
RECURSIVE JoinSteps(_)
JoinSteps(steps) ==
    IF steps = <<>> THEN <<>>
    ELSE IF Len(steps) = 1 THEN Head(steps)
    ELSE Head(steps) \o <<"\n", "-", " ">> \o JoinSteps(Tail(steps))

PlanListing(steps) == <<"Plan:", "\n", "-", " ">> \o JoinSteps(steps)
PlanMessage(steps) == SystemMsg(<<"Planned steps:", "\n", "-", " ">> \o JoinSteps(steps))
StepHeader(index, total, step) ==
    <<"[system] Step ", ToString(index + 1), "/", ToString(total), ": ">> \o step
StepUserMsg(index, total, step) ==
    UserMsg(<<"Execute step ", ToString(index + 1), "/", ToString(total), ": ">> \o step)

\* final_text.split("\n\n") with each part stripped, empty parts left out
RECURSIVE Paragraphs(_, _)
Paragraphs(text, part) ==
    IF text = <<>> THEN (IF Strip(part) = <<>> THEN <<>> ELSE <<Strip(part)>>)
    ELSE IF Head(text) = "\n\n"
         THEN (IF Strip(part) = <<>> THEN <<>> ELSE <<Strip(part)>>)
              \o Paragraphs(Tail(text), <<>>)
         ELSE Paragraphs(Tail(text), Append(part, Head(text)))

NoOutput == <<"...(no output)">>

---------------------------------------------------------------------------
(* The turn in flight.  A machine M is the engine between two awaits:      *)
(* st = the GraphState dict, cx = the locals, pc = where it waits ("llm",  *)
(* "plan") or "done" when _process_input has returned, req = the request   *)
(* it sent, ex = the calls the dispatcher ran.                             *)

IdleCtx ==
    [route |-> "", in_steps |-> FALSE, follow |-> FALSE,
     agent |-> "", cid |-> 0, model |-> "",
     working |-> <<>>, new_messages |-> <<>>, notices |-> <<>>, base |-> <<>>,
     responses |-> <<>>, step_responses |-> <<>>,
     index |-> 0, plan_steps |-> <<>>, steps |-> <<>>]

NoLlmRequest == [kind |-> "none", model |-> "", agent |-> "", messages |-> <<>>]

\* the directories that hold a non-empty AGENTS.md
AgentsFiles == env.files
\* whether the front end set a stream callback (ainvoke_stream)
Streaming == env.stream

ConvMessages(M) == M.st.agents[M.cx.agent].conversations[M.cx.cid].messages

\* conv["messages"] = trim_messages(messages, model, self.max_turns)
PutTrimmed(M, messages) ==
    [M EXCEPT !.st = SetMessages(M.st, M.cx.agent, M.cx.cid,
                                 trim_messages(messages, M.cx.model))]

\* _process_input: state["responses"] = responses; return state
Done(M) == [M EXCEPT !.pc = "done", !.st.responses = M.cx.responses]

\* _run_llm_loop, lines 666-689: the completion request
SendRequest(M) ==
    [M EXCEPT !.pc = "llm",
              !.req = [kind |-> "chat", model |-> M.cx.model, agent |-> M.cx.agent,
                       messages |-> _normalize_messages_for_llm(M.cx.working)]]

\* _run_llm_loop entered with the messages of the conversation
StartLoop(M) ==
    SendRequest([M EXCEPT !.cx.working = ConvMessages(M),
                          !.cx.new_messages = <<>>, !.cx.notices = <<>>])

\* _process_input after _run_plan_steps returned (lines 923-928, 975-1004)
StepsReturn(M, suspended) ==
    IF M.cx.follow
    THEN Done([M EXCEPT !.cx.responses = @ \o M.cx.step_responses])
    ELSE IF suspended
    THEN Done([M EXCEPT !.cx.responses = M.cx.step_responses])
    ELSE IF ~Streaming
    THEN Done([M EXCEPT !.cx.responses =
                            <<PlanListing(M.cx.plan_steps)>> \o M.cx.step_responses])
    ELSE Done([M EXCEPT !.cx.responses = M.cx.step_responses])

\* _run_plan_steps, the head of its while loop (lines 223-243, 261-263)
PlanLoop(M) ==
    LET index == M.cx.index
        total == Len(M.cx.steps)
    IN  IF index < total
        THEN LET step == M.cx.steps[index + 1]
                 M1 == [M EXCEPT !.cx.step_responses =
                                     Append(@, StepHeader(index, total, step))]
                 M2 == PutTrimmed(M1, Append(ConvMessages(M1), StepUserMsg(index, total, step)))
             IN  StartLoop(M2)
        ELSE StepsReturn([M EXCEPT !.st.has_plan = FALSE, !.st.plan_steps = <<>>,
                                   !.st.plan_index = 0], FALSE)

\* _run_plan_steps, its entry (lines 215-221); start < 0 stands for None
EnterPlanSteps(M, start) ==
    LET steps == M.st.plan_steps
        M1 == [M EXCEPT !.cx.in_steps = TRUE, !.cx.steps = steps,
                        !.cx.step_responses = <<>>,
                        !.cx.index = IF start >= 0 THEN start ELSE M.st.plan_index]
    IN  IF steps = <<>> THEN StepsReturn(M1, FALSE) ELSE PlanLoop(M1)


\* the caller of _run_llm_loop after it returned without suspending:
\* _run_plan_steps lines 244-259, _process_input lines 821-831, 857-864,
\* 898-928, 989-996
LoopCompleted(M, responses) ==
    IF M.cx.in_steps
    THEN LET M1 == [M EXCEPT !.cx.step_responses = @ \o M.cx.notices \o responses]
             M2 == PutTrimmed(M1, ConvMessages(M1) \o M1.cx.new_messages)
         IN  PlanLoop([M2 EXCEPT !.cx.index = @ + 1, !.st.plan_index = M.cx.index + 1])
    ELSE LET M1 == [M EXCEPT !.cx.responses = M.cx.notices \o responses]
             M2 == PutTrimmed(M1, ConvMessages(M1) \o M1.cx.base \o M1.cx.new_messages)
         IN  IF M.cx.route # "fresh" /\ M2.st.plan_steps # <<>>
             THEN EnterPlanSteps([M2 EXCEPT !.st.plan_index = @ + 1, !.st.has_plan = TRUE,
                                            !.cx.follow = TRUE], -1)
             ELSE Done(M2)

\* the caller of _run_llm_loop after it returned a new pending record:
\* _run_plan_steps lines 244-251, _process_input lines 823-824, 859-860,
\* 900-901, 911-928, 991-992
LoopSuspended(M, responses, pending_next) ==
    LET M1 == [M EXCEPT !.st.approvals.pending = pending_next] IN
    IF M.cx.in_steps
    THEN StepsReturn([M1 EXCEPT !.cx.step_responses = @ \o M.cx.notices \o responses,
                                !.st.plan_index = M.cx.index], TRUE)
    ELSE Done([M1 EXCEPT !.cx.responses = M.cx.notices \o responses])

\* the first ask_user call of a batch, 0 when there is none (lines 709-712)
FirstAsk(tool_calls) ==
    IF \E i \in 1..Len(tool_calls) : tool_calls[i].name = "ask_user"
    THEN CHOOSE i \in 1..Len(tool_calls) :
             /\ tool_calls[i].name = "ask_user"
             /\ \A k \in 1..(i - 1) : tool_calls[k].name # "ask_user"
    ELSE 0

\* _execute_tool_calls raises at the call: the tool function fails its
\* assert, or arguments.get is called on a JSON value that is no object
\* (lines 523, 537, 552; registry.py lines 24-37)
Raises(call) ==
    \/ execute_tool_async(call).raises
    \/ call.arguments.valid /\ ~call.arguments.obj /\ ~is_skill_tool(call.name)

\* the first call of the batch at which the dispatcher raises, 0 when none
FirstRaise(tool_calls) ==
    IF \E i \in 1..Len(tool_calls) : Raises(tool_calls[i])
    THEN CHOOSE i \in 1..Len(tool_calls) :
             /\ Raises(tool_calls[i])
             /\ \A k \in 1..(i - 1) : ~Raises(tool_calls[k])
    ELSE 0

\* YabotGraph._execute_tool_calls: the calls handed to the dispatcher, in
\* batch order, up to the one that raises
Dispatched(tool_calls) ==
    LET last == IF FirstRaise(tool_calls) = 0 THEN Len(tool_calls)
                ELSE FirstRaise(tool_calls)
    IN  [i \in 1..last |-> [execute_tool_async(tool_calls[i]) EXCEPT
                                !.raises = Raises(tool_calls[i])]]

\* _run_llm_loop, lines 705-757, for the batch tool_calls of assistant_message
ProcessToolCalls(M, tool_calls, assistant_message) ==
    LET M1 == [M EXCEPT !.cx.notices = @ \o _tool_call_notices(tool_calls)]
        ask == FirstAsk(tool_calls)
        question == Strip(StrOf(LoadArgs(tool_calls[ask].arguments).question))
        missing == _first_missing_approval(M.st.approvals, tool_calls)
        conv == M.st.agents[M.cx.agent].conversations[M.cx.cid]
        inj == _inject_agents_messages(AgentsFiles, conv.agents_loaded,
                                       _agents_paths_for_tool_calls(tool_calls))
        results == ToolMessages(tool_calls) \o SkillMessages(tool_calls)
    IN  IF ask # 0
        THEN LoopSuspended(M1, <<IF question # <<>> THEN question ELSE <<"Can you clarify?">>>>,
                           [request |-> AskRequest(tool_calls[ask].id),
                            assistant |-> assistant_message, tool_calls |-> <<>>,
                            agent |-> M.cx.agent])
        ELSE IF missing # NoRequest
        THEN LoopSuspended(M1, <<_approval_prompt(missing)>>,
                           [request |-> missing, assistant |-> assistant_message,
                            tool_calls |-> tool_calls, agent |-> M.cx.agent])
        ELSE IF FirstRaise(tool_calls) # 0
        THEN [M1 EXCEPT !.pc = "raise", !.ex = @ \o Dispatched(tool_calls)]
        ELSE SendRequest(
                [M1 EXCEPT !.st = BatchEffect(
                               [@ EXCEPT !.agents[M.cx.agent].conversations[M.cx.cid].agents_loaded =
                                             inj.loaded],
                               tool_calls),
                           !.cx.working = @ \o inj.injected \o results,
                           !.cx.new_messages = @ \o inj.injected \o results,
                           !.ex = @ \o Dispatched(tool_calls)])

\* a history that keeps its oldest entries
record_keeps_oldest(st, agent, tool_calls) ==
    [st EXCEPT !.agents[agent].tool_history =
                  IF Len(@ \o tool_calls) <= MaxToolHistory THEN @ \o tool_calls
                  ELSE SubSeq(@ \o tool_calls, 1, MaxToolHistory)]

\* commands.agent_record_tool_calls
agent_record_tool_calls(st, agent, tool_calls) ==
    [st EXCEPT !.agents[agent].tool_history = LastN(@ \o tool_calls, MaxToolHistory)]

\* _run_llm_loop, lines 690-704 and 759-766: the completion came back
OnCompletion(M, message) ==
    LET M1 == [M EXCEPT !.cx.new_messages = Append(@, message),
                        !.cx.working = Append(@, message)]
        final_text == Strip(message.content)
    IN  IF message.tool_calls # <<>>
        THEN ProcessToolCalls(
                 [M1 EXCEPT !.st = agent_record_tool_calls(@, M.cx.agent, message.tool_calls)],
                 message.tool_calls, message)
        ELSE LoopCompleted(M1, IF final_text # <<>> THEN Paragraphs(final_text, <<>>)
                                ELSE <<NoOutput>>)


PlannerPrompt == <<"You are a planner. Return a concise todo list for the task.">>

\* YabotGraph._auto_plan, lines 187-197: the planner request
PlanRequest(model, incoming) ==
    [kind |-> "plan", model |-> model, agent |-> "",
     messages |-> <<SystemMsg(PlannerPrompt), UserMsg(incoming)>>]

\* _process_input, lines 787-909, up to the first await of the pending branch
\* a resumption that asks the model again instead of running the batch
replay_asks_model(M, pending) ==
    SendRequest([M EXCEPT !.cx.route = "approve", !.cx.working = ConvMessages(M)])

\* _process_input, lines 849-859 with _run_llm_loop, lines 659-663: the loop
\* is entered with the captured batch and its assistant message
ReplayBatch(M, pending) ==
    ProcessToolCalls(
        [M EXCEPT !.cx.route = "approve",
                  !.cx.new_messages = <<pending.assistant>>,
                  !.cx.working = Append(ConvMessages(M), pending.assistant)],
        pending.tool_calls, pending.assistant)

\* the ledger does not record the grant
approve_nothing(approvals, req) == approvals

\* _process_input, lines 832-836, the reply 'y' to a pending approval: the scope
\* of the request goes to the ledger
ApproveRequest(approvals, req) ==
    IF req.kind = "shell" THEN _approve_shell(approvals, req.command, req.workdir)
    ELSE IF req.kind = "dir" THEN _approve_dir(approvals, req.dir)
    ELSE approvals

ResolvePending(M, incoming) ==
    LET pending == M.st.approvals.pending
        req == pending.request
        pending_agent == pending.agent
        cid == M.st.agents[pending_agent].active
        conv == M.st.agents[pending_agent].conversations[cid]
        approvals == ApproveRequest(M.st.approvals, req)
        stripped == _assistant_without_tool_calls(pending.assistant)
        M1 == [M EXCEPT !.st.approvals.pending = NoPending,
                        !.st.agents[pending_agent].conversations[cid].messages =
                            _ensure_system_prompt(@, _system_prompt_for_agent(pending_agent)),
                        !.cx.agent = pending_agent, !.cx.cid = cid, !.cx.model = conv.model]
    IN  IF req.kind = "ask_user"
        THEN LET base == (IF pending.assistant # NoMsg THEN <<pending.assistant>> ELSE <<>>)
                         \o <<ToolMsg(req.tool_call_id, incoming)>>
             IN  SendRequest([M1 EXCEPT !.cx.route = "ask", !.cx.base = base,
                                        !.cx.working = ConvMessages(M1) \o base])
        ELSE IF Lower(Strip(incoming)) = <<"y">>
        THEN ReplayBatch([M1 EXCEPT !.st.approvals = [approvals EXCEPT !.pending = NoPending]],
                         pending)
        ELSE LET base == (IF stripped # NoMsg THEN <<stripped>> ELSE <<>>)
                         \o <<UserMsg(<<"Approval denied. Feedback: ">> \o incoming)>>
             IN  SendRequest([M1 EXCEPT !.cx.route = "deny", !.cx.base = base,
                                        !.cx.working = ConvMessages(M1) \o base])

\* a routing test that never sees the pending record
has_pending_never(st) == FALSE

\* _process_input, lines 787-788: if pending
HasPending(st) == st.approvals.pending # NoPending

\* _process_input, lines 769-782 and the routing of lines 787, 930, 949-957
ProcessInput(checkpoint, text) ==
    LET incoming == Strip(text)
        st0 == ensure_state(checkpoint)
        active_agent == st0.active_agent
        cid == st0.active
        conv == room_active_conv(st0)
        inj == _inject_agents_messages(AgentsFiles, conv.agents_loaded, <<PathStr(Cwd)>>)
        st1 == [st0 EXCEPT
                   !.agents[active_agent].conversations[cid].messages =
                       _ensure_system_prompt(@, _system_prompt_for_agent(active_agent))
                       \o inj.injected,
                   !.agents[active_agent].conversations[cid].agents_loaded = inj.loaded]
        M == [st |-> st1, pc |-> "run", req |-> NoLlmRequest, ex |-> <<>>,
              cx |-> [IdleCtx EXCEPT !.agent = active_agent, !.cid = cid,
                                     !.model = conv.model]]
        parsed == parse_command(incoming)
        handled == handle_command(st1, parsed.cmd, parsed.arg)
        M3 == PutTrimmed(M, Append(ConvMessages(M), UserMsg(incoming)))
    IN  IF HasPending(st1) THEN ResolvePending(M, incoming)
        ELSE IF parsed.ok
        THEN Done([M EXCEPT !.st = handled.st, !.cx.route = "command",
                            !.cx.responses = <<handled.text>>])
        ELSE IF _is_complex_task(incoming)
        THEN [M3 EXCEPT !.pc = "plan", !.cx.route = "fresh",
                        !.req = PlanRequest(conv.model, incoming)]
        ELSE StartLoop([M3 EXCEPT !.cx.route = "fresh"])

\* _process_input, lines 957-988: the planner's answer came back
OnPlan(M, content) ==
    LET stripped == Strip(content)
        steps == IF stripped # <<>> THEN _parse_plan(stripped) ELSE <<>>
        M1 == [M EXCEPT !.st.has_plan = TRUE, !.st.plan_steps = steps,
                        !.st.plan_index = 0, !.cx.plan_steps = steps]
    IN  IF steps # <<>>
        THEN EnterPlanSteps(PutTrimmed(M1, Append(ConvMessages(M1), PlanMessage(steps))), 0)
        ELSE StartLoop(M)

\* the checkpoint write after the node returned: a channel is written when
\* its key is in the returned dict, and keeps its last value otherwise
Commit(old, st) ==
    IF st.has_plan THEN st
    ELSE [st EXCEPT !.has_plan = old.has_plan, !.plan_steps = old.plan_steps,
                    !.plan_index = old.plan_index]

---------------------------------------------------------------------------
(* The environment: what the user types, what the model and the planner    *)
(* answer.  A run draws them from the alphabets of its environment.        *)

Hi == <<"hi">>
Yes == <<"y">>
YesLoose == <<" ", "Y", "\n">>
No == <<"no">>
Complex == <<"build", " ", "and", " ", "test">>

Texts(name) ==
    CASE name = "shell" -> {Hi, Yes, YesLoose, No}
      [] name = "fs" -> {Hi, Yes}
      [] name = "ask" -> {Hi, Yes, No}
      [] name = "plan" -> {Complex, Yes, No}
      [] name = "raise" -> {Hi, Yes}
      [] name = "cmd" -> {Hi, <<"!", "reset">>, <<"!", "new">>,
                          <<"!", "become", " ", "main">>,
                          <<"!", "model", " ", "gpt-5.2">>,
                          <<"!", "model", " ", "x", "\n", "y">>}
      [] name = "conv" -> {Hi, <<"!", "new">>, <<"!", "reset">>,
                           <<"!", "use", " ", "1">>, <<"!", "use", " ", "3">>,
                           <<"!", "become", " ", "main">>,
                           <<"!", "become", " ", "meta">>,
                           <<"!", "model", " ", "gpt-5.2">>}
      [] name = "agents" -> {Hi, Yes}
      [] name = "stale" -> {Complex, Hi}
      [] name = "tools" -> {Hi, <<"!", "model", " ", "gpt-5.2">>,
                            <<"!", "model", " ", "nope">>}

Final == AssistantMsg(<<"done">>, <<>>)
Ls == Call("", "run_shell", ShellArgs(StrVal(<<"ls">>), NoneVal))
LsIn == Call("", "run_shell", ShellArgs(StrVal(<<"ls">>), StrVal(<<"sub">>)))
ListSub == Call("", "list_dir", PathArgs(StrVal(<<"sub">>)))
ReadDeep == Call("", "read_file", PathArgs(StrVal(<<"sub", "deep", "f">>)))
ListUp == Call("", "list_dir", PathArgs(StrVal(<<"sub", "..", "other">>)))
CreateNum == Call("", "create_dir", PathArgs(NumVal(<<"7">>)))
ListHome == Call("", "list_dir", PathArgs(StrVal(<<"~", "x">>)))
Ask == Call("", "ask_user", AskArgs(StrVal(<<"which?">>)))
LsNone == Call("", "run_shell", NoArgs)
ReadNone == Call("", "read_file", NoArgs)
Demo == Call("", "skill__demo", NoArgs)
WriteSub == Call("", "write_file", PathArgs(StrVal(<<"sub", "f">>)))
ListOther == Call("", "list_dir", PathArgs(StrVal(<<"other">>)))
ListCwd == Call("", "list_dir", PathArgs(StrVal(<<".">>)))
ListBad == Call("", "list_dir", BadArgs)
SetModel(a, m) == Call("", "agent_set_model", AgentModelArgs(a, m))
SetModelList == Call("", "agent_set_model", ListArgs)

Replies(name) ==
    CASE name = "shell" -> {Final, AssistantMsg(<<"running">>, <<Ls>>),
                            AssistantMsg(<<>>, <<LsIn>>), AssistantMsg(<<>>, <<Ls, LsIn>>)}
      [] name = "fs" -> {Final, AssistantMsg(<<>>, <<ListSub>>),
                         AssistantMsg(<<>>, <<ReadDeep>>), AssistantMsg(<<>>, <<ListUp>>),
                         AssistantMsg(<<>>, <<CreateNum>>), AssistantMsg(<<>>, <<ListHome>>)}
      [] name = "ask" -> {Final, AssistantMsg(<<>>, <<Ask>>),
                          AssistantMsg(<<"checking">>, <<Ls, Ask>>)}
      [] name = "plan" -> {Final, AssistantMsg(<<>>, <<Ls>>)}
      [] name = "raise" -> {Final, AssistantMsg(<<>>, <<LsNone>>),
                            AssistantMsg(<<>>, <<ListSub>>),
                            AssistantMsg(<<>>, <<ListSub, ReadNone>>)}
      [] name = "cmd" -> {Final, AssistantMsg(<<>>, <<Ls>>)}
      [] name = "conv" -> {Final}
      [] name = "agents" -> {Final, AssistantMsg(<<>>, <<LsIn>>),
                             AssistantMsg(<<>>, <<Ls, Demo>>)}
      [] name = "stale" -> {Final, AssistantMsg(<<>>, <<Ask>>)}
      [] name = "tools" -> {Final, AssistantMsg(<<>>, <<ListBad, Demo>>),
                            AssistantMsg(<<>>, <<Demo, ListBad, CreateNum>>),
                            AssistantMsg(<<>>, <<ReadNone>>),
                            AssistantMsg(<<>>, <<SetModelList>>),
                            AssistantMsg(<<>>, <<SetModel(NoneVal, StrVal(<<"gpt-5.2">>))>>),
                            AssistantMsg(<<>>, <<SetModel(StrVal(<<"meta">>), StrVal(<<"nope">>)),
                                                 SetModel(StrVal(<<" ", "Meta">>),
                                                          StrVal(<<"gpt-5.2", "\n">>))>>),
                            AssistantMsg(<<>>, <<SetModel(StrVal(<<"ghost">>),
                                                          StrVal(<<"gpt-5.2">>))>>)}

Plans(name) ==
    IF name = "plan"
    THEN {<<"-", " ", "build", "\n", "-", " ", "test">>, <<>>}
    ELSE IF name = "stale" THEN {<<"-", " ", "build", "\n", "-", " ", "test">>}
    ELSE {<<>>}

\* the failures a run can meet at an await
Faults(name) == IF name = "raise" THEN {"llm", "cancel"} ELSE {}

Envs ==
    {[name |-> n, files |-> {}, stream |-> FALSE] : n \in {"shell", "fs", "ask", "plan", "cmd", "raise"}}

\* the id the model gives the i-th call of its k-th completion
CallId(k, i) == "c" \o ToString(k) \o "_" \o ToString(i)

Stamp(message, k) ==
    [message EXCEPT !.tool_calls =
        [i \in 1..Len(message.tool_calls) |->
            [message.tool_calls[i] EXCEPT !.id = CallId(k, i)]]]

---------------------------------------------------------------------------
(* The front ends and the stream registry (src/yabot/streams.py,           *)
(* src/yabot/daemon.py, src/yabot/cli.py, src/yabot/interaction.py,        *)
(* src/yabot/handler.py).  A turn is an asyncio task; a task is a number,  *)
(* 0 stands for None.  The engine behind a task is reduced to what a front *)
(* end sees of it: it reads the room's history when it starts, emits       *)
(* tokens, and ends by a return, an exception or a cancellation.           *)

Rooms == {"r1", "r2"}

Fronts == {"daemon", "cli", "matrix"}

NoTask == 0

Tasks == 1..MaxTasks

NoTaskRec ==
    [room |-> "", front |-> "", state |-> "none", must_cancel |-> FALSE,
     stream |-> FALSE, token |-> 0, base |-> <<>>, result |-> "", reported |-> ""]

NoStop == [room |-> "", ok |-> FALSE, running |-> {}, target |-> NoTask]

\* a history entry and the turn it came from
Entry(role, content, t) == [role |-> role, content |-> content, turn |-> t]

\* asyncio.Task.done
done(ts, t) == ts[t].state \in {"finished", "cancelled", "failed"}

\* the tasks of the room that have started and not finished
InFlight(ts, room_id) == {t \in Tasks : ts[t].room = room_id /\ ts[t].state = "running"}

\* StreamRegistry.register
register(streams, room_id, task) == [streams EXCEPT ![room_id] = task]

\* StreamRegistry.clear
clear(streams, room_id, task) ==
    IF streams[room_id] = task THEN [streams EXCEPT ![room_id] = NoTask] ELSE streams

\* StreamRegistry.stop: the task it cancels, NoTask when it returns False
stop(streams, ts, room_id) ==
    LET task == streams[room_id]
    IN  IF task = NoTask \/ done(ts, task) THEN NoTask ELSE task

\* every task in the context of the event loop
context_of_loop(t) == 0

\* asyncio.create_task runs the coroutine in a copy of the current context:
\* the context a task reads and writes _stream_callback in
ContextOf(t) == t

\* the first unused task
NewTask == CHOOSE t \in Tasks : tasks[t].state = "none" /\ \A u \in Tasks : u < t => tasks[u].state # "none"

CanStart == \E t \in Tasks : tasks[t].state = "none"

\* YabotGraph.ainvoke_stream binds the sink (token = the value before),
\* YabotGraph.ainvoke binds nothing; the task is created and registered
StartTurn(room_id, kind, stream) ==
    LET t == NewTask
        c == ContextOf(t)
    IN  /\ CanStart
        /\ tasks' = [tasks EXCEPT ![t] =
                        [NoTaskRec EXCEPT !.room = room_id, !.front = kind, !.state = "running",
                                          !.stream = stream, !.token = binding[c],
                                          !.base = history[room_id]]]
        /\ binding' = IF stream THEN [binding EXCEPT ![c] = t] ELSE binding
        /\ active_streams' = register(active_streams, room_id, t)

\* YabotDaemon.handler, a "message" event, and _handle_message up to its await
_handle_message(room_id) ==
    /\ front = "daemon"
    /\ StartTurn(room_id, "daemon", TRUE)
    /\ stopped' = NoStop
    /\ UNCHANGED <<notFront, front, delivered, history>>

\* YabotCLI._handle_line, _start_dispatch and _dispatch up to its await
_dispatch ==
    /\ front = "cli"
    /\ StartTurn("r1", "cli", TRUE)
    /\ stopped' = NoStop
    /\ UNCHANGED <<notFront, front, delivered, history>>

\* interaction.dispatch_graph up to its await
dispatch_graph(room_id) ==
    /\ front = "cli"
    /\ StartTurn(room_id, "dispatch", FALSE)
    /\ stopped' = NoStop
    /\ UNCHANGED <<notFront, front, delivered, history>>

\* BotHandler.on_message for a plain text, up to its await: the user message
\* joins the history before the task is created; the client awaits one
\* callback at a time
on_message(room_id) ==
    /\ front = "matrix"
    /\ \A t \in Tasks : tasks[t].state # "none" => tasks[t].reported # ""
    /\ CanStart
    /\ history' = [history EXCEPT ![room_id] =
                      LastN(Append(@, Entry("user", "text", NewTask)), max_turns * 2)]
    /\ tasks' = [tasks EXCEPT ![NewTask] =
                    [NoTaskRec EXCEPT !.room = room_id, !.front = "matrix", !.state = "running"]]
    /\ active_streams' = register(active_streams, room_id, NewTask)
    /\ stopped' = NoStop
    /\ UNCHANGED <<notFront, front, binding, delivered>>

\* _run_llm_loop, the streaming completion: a token goes to the sink bound
\* in the context of the task
Token(t) ==
    /\ tasks[t].state = "running"
    /\ ~tasks[t].must_cancel
    /\ binding[ContextOf(t)] # 0
    /\ delivered' = delivered \cup {[turn |-> t, sink |-> binding[ContextOf(t)]]}
    /\ stopped' = NoStop
    /\ UNCHANGED <<notFront, front, tasks, active_streams, binding, history>>

\* the end of ainvoke_stream: _stream_callback.reset(token)
Unbind(t) == IF tasks[t].stream THEN [binding EXCEPT ![ContextOf(t)] = tasks[t].token] ELSE binding

\* the task of a turn ends: how = "finished" (the turn returns), "cancelled"
\* (CancelledError at its await, after a cancel request), "failed" (the LLM
\* call raises).  A graph turn writes its checkpoint only when it returns;
\* the loop of BotHandler catches both exceptions and returns a message.
TaskEnds(t, how) ==
    /\ tasks[t].state = "running"
    /\ (how = "cancelled") = tasks[t].must_cancel
    /\ binding' = Unbind(t)
    /\ IF tasks[t].front = "matrix"
       THEN /\ tasks' = [tasks EXCEPT ![t].state = "finished",
                                      ![t].result = IF how = "cancelled" THEN "Cancelled."
                                                    ELSE IF how = "failed" THEN "LLM error"
                                                    ELSE "answer"]
            /\ UNCHANGED history
       ELSE /\ tasks' = [tasks EXCEPT ![t].state = how,
                                      ![t].result = IF how = "finished" THEN "answer" ELSE ""]
            /\ history' = IF how = "finished"
                          THEN [history EXCEPT ![tasks[t].room] =
                                   LastN(tasks[t].base \o <<Entry("user", "text", t),
                                                            Entry("assistant", "answer", t)>>,
                                         max_turns * 2)]
                          ELSE history
    /\ stopped' = NoStop
    /\ UNCHANGED <<notFront, front, active_streams, delivered>>

\* the front end after its await: the registry entry is cleared and the
\* outcome goes to the requester; BotHandler extends the history with the
\* messages the loop returned
Resume(t) ==
    /\ done(tasks, t)
    /\ tasks[t].reported = ""
    /\ active_streams' = clear(active_streams, tasks[t].room, t)
    /\ tasks' = [tasks EXCEPT ![t].reported =
                    IF tasks[t].front = "matrix" THEN "text"
                    ELSE IF tasks[t].state = "cancelled" THEN "cancelled"
                    ELSE IF tasks[t].state = "failed" THEN "error"
                    ELSE "response"]
    /\ history' = IF tasks[t].front = "matrix"
                  THEN [history EXCEPT ![tasks[t].room] =
                           LastN(Append(@, Entry("assistant", tasks[t].result, t)), max_turns * 2)]
                  ELSE history
    /\ stopped' = NoStop
    /\ UNCHANGED <<notFront, front, binding, delivered>>

\* a stop request for the room: YabotDaemon.handler "stop", request_stop
Stop(room_id) ==
    LET task == stop(active_streams, tasks, room_id)
    IN  /\ stopped' = [room |-> room_id, ok |-> task # NoTask,
                       running |-> InFlight(tasks, room_id), target |-> task]
        /\ tasks' = IF task = NoTask THEN tasks ELSE [tasks EXCEPT ![task].must_cancel = TRUE]
        /\ UNCHANGED <<notFront, front, active_streams, binding, delivered, history>>

FrontInit ==
    /\ tasks = [t \in Tasks |-> NoTaskRec]
    /\ active_streams = [r \in Rooms |-> NoTask]
    /\ binding = [c \in 0..MaxTasks |-> 0]
    /\ delivered = {}
    /\ history = [r \in Rooms |-> <<>>]
    /\ stopped = NoStop

\* a room with no turn in flight
NoFlight ==
    [pc |-> "idle", st |-> InitialState, cx |-> IdleCtx, req |-> NoLlmRequest, ex |-> <<>>,
     n |-> 0, calls |-> 0, heard |-> FALSE, reloaded |-> FALSE, crossed |-> FALSE]

\* no checkpoint file yet
NoFile == [storage |-> <<>>, blobs |-> {}]

RoomsInit ==
    /\ storage = [k \in Rooms |-> InitialState]
    /\ flights = [r \in Rooms |-> NoFlight]
    /\ alone = [r \in Rooms |-> [saved |-> InitialState, flight |-> NoFlight]]
    /\ file = NoFile

LedgerInit ==
    /\ ledger = InitialState.approvals
    /\ applied = {}

TrimInit ==
    /\ tIn = <<>>
    /\ tOut = <<>>
    /\ tCfg = [model |-> "gpt-4o-mini", max_turns |-> max_turns]

\* ensure_daemon, lines 20-22: last_error = None, spawned = False, proc = None;
\* log holds the outcome of every client.connect() so far, spawned_after the
\* number of attempts made when spawn was called
NoBoot ==
    [retries |-> 1, autostart |-> FALSE, delay |-> 0, pc |-> "loop",
     last_error |-> "", spawned |-> FALSE, proc |-> FALSE,
     log |-> <<>>, spawns |-> 0, spawned_after |-> 0, sleeps |-> 0,
     raised |-> ""]

BootInit == boot = NoBoot

\* granted holds the requests the user approved
NoGate == [approvals |-> InitialState.approvals, tool_calls |-> <<>>, out |-> NoRequest,
           before |-> InitialState.approvals, granted |-> {}]

GateInit == gate = NoGate

HistInit == recorded = [a \in AGENT_NAMES |-> 0]

---------------------------------------------------------------------------
(* The engine as a state machine.                                          *)

\* earlier: the calls the dispatcher ran in the turns that returned with the
\* suspension the current turn resumes; in_step: the pending record the turn
\* found was raised by a step of a plan, in the turn that ran the step or in
\* a turn that resumed it
NoTurn ==
    [n |-> 0, text |-> <<>>, calls |-> 0, reqs |-> 0, raised |-> FALSE, why |-> "",
     before |-> InitialState, earlier |-> <<>>, in_step |-> FALSE]

EngineInit ==
    /\ saved = InitialState
    /\ state = InitialState
    /\ pc = "idle"
    /\ ctx = IdleCtx
    /\ request = NoLlmRequest
    /\ executed = <<>>
    /\ turn = NoTurn

Init ==
    /\ EngineInit
    /\ env \in Envs
    /\ nIn = <<>>
    /\ nOut = <<>>
    /\ front = "daemon"
    /\ FrontInit
    /\ RoomsInit
    /\ LedgerInit
    /\ TrimInit
    /\ BootInit
    /\ GateInit
    /\ HistInit

Cur == [st |-> state, cx |-> ctx, pc |-> "run", req |-> request, ex |-> executed]

Waits(M) == M.pc \in {"llm", "plan"}

\* a turn that keeps what it had done when it failed
abort_keeps_state(old, st, text) == st

\* the checkpoint of a turn whose node raised or was cancelled: the input
\* {"incoming": text} was written when the run started, the node wrote nothing
Abort(old, st, text) == [old EXCEPT !.incoming = text]

\* the length of a run
TurnBound ==
    CASE env.name = "stale" -> MaxStaleTurns
      [] env.name = "tools" -> MaxToolTurns
      [] OTHER -> MaxTurnCount
CallBound ==
    CASE env.name = "stale" -> MaxStaleCalls
      [] env.name = "tools" -> MaxToolCalls
      [] OTHER -> MaxLlmCalls

\* the engine runs to its next await, to the checkpoint write, or to the
\* exception that ends the turn without a checkpoint write
Apply(M, t) ==
    /\ Waits(M) => turn.calls < CallBound
    /\ Cardinality(ConvIds(M.st)) <= MaxConvs
    /\ pc' = IF Waits(M) THEN M.pc ELSE "idle"
    /\ saved' = IF Waits(M) THEN saved
                ELSE IF M.pc = "raise" THEN Abort(saved, M.st, t.text)
                ELSE Commit(saved, M.st)
    /\ state' = IF Waits(M) THEN M.st ELSE saved'
    /\ ctx' = M.cx
    /\ request' = M.req
    /\ executed' = M.ex
    /\ turn' = [t EXCEPT !.calls = IF Waits(M) THEN @ + 1 ELSE @,
                         !.reqs = IF Waits(M) THEN @ + 1 ELSE @,
                         !.raised = (M.pc = "raise"),
                         !.why = IF M.pc = "raise" THEN "tool" ELSE ""]
    /\ UNCHANGED <<env, notEngine>>

\* the turn in flight ends on an exception raised at its await
Fail(why) ==
    /\ pc \in {"llm", "plan"}
    /\ why \in Faults(env.name)
    /\ pc' = "idle"
    /\ saved' = Abort(saved, state, turn.text)
    /\ state' = saved'
    /\ turn' = [turn EXCEPT !.raised = TRUE, !.why = why]
    /\ UNCHANGED <<ctx, request, executed, env, notEngine>>

\* LLMClient.create_message raises
LlmRaises == Fail("llm")

\* the task of the turn is cancelled (StreamRegistry.stop, a closed connection)
Cancelled == Fail("cancel")

\* YabotGraph.ainvoke(room_id, text)
Receive(text) ==
    /\ pc = "idle"
    /\ turn.n < TurnBound
    /\ Apply(ProcessInput([saved EXCEPT !.incoming = text], text),
             [turn EXCEPT !.n = @ + 1, !.text = text, !.reqs = 0, !.raised = FALSE,
                          !.why = "", !.before = saved,
                          !.earlier = IF saved.approvals.pending # NoPending
                                      THEN @ \o (IF turn.raised THEN <<>> ELSE executed)
                                      ELSE <<>>,
                          !.in_step = /\ saved.approvals.pending # NoPending
                                      /\ IF turn.raised THEN @ ELSE ctx.in_steps \/ @])

\* LLMClient.create_message answers the planner request
PlannerReply(content) ==
    /\ pc = "plan"
    /\ Apply(OnPlan(Cur, content), turn)

\* LLMClient.create_message answers a completion request
LlmReply(message) ==
    /\ pc = "llm"
    /\ Apply(OnCompletion(Cur, Stamp(message, turn.calls)), turn)

Next ==
    \/ \E text \in Texts(env.name) : Receive(text)
    \/ \E content \in Plans(env.name) : PlannerReply(content)
    \/ \E message \in Replies(env.name) : LlmReply(message)
    \/ LlmRaises
    \/ Cancelled

Spec == Init /\ [][Next]_vars

---------------------------------------------------------------------------
(* The engine in two more environments.  "conv": the conversation         *)
(* commands !new, !use with the id of a conversation of the own agent, of  *)
(* the other agent and of none, !become, !reset and !model between plain   *)
(* turns.  "agents": the directory sub of the working directory holds an   *)
(* AGENTS.md file, the model runs a shell command there and calls a skill. *)
(* "stale": a two-step plan and plain requests, the model asks the user a  *)
(* question where it likes; the runs are long enough for a request after a *)
(* plan that was suspended and resumed.  "tools": batches with a call whose *)
(* arguments are not JSON and with a read_file call that names no path.    *)

ConvEnv == [name |-> "conv", files |-> {}, stream |-> FALSE]
StaleEnv == [name |-> "stale", files |-> {}, stream |-> FALSE]
ToolsEnv == [name |-> "tools", files |-> {}, stream |-> FALSE]
AgentsEnv == [name |-> "agents", files |-> {<<"w", "sub">>}, stream |-> FALSE]

InitConv ==
    /\ EngineInit
    /\ env \in {ConvEnv, AgentsEnv, StaleEnv, ToolsEnv}
    /\ nIn = <<>>
    /\ nOut = <<>>
    /\ front = "daemon"
    /\ FrontInit
    /\ RoomsInit
    /\ LedgerInit
    /\ TrimInit
    /\ BootInit
    /\ GateInit
    /\ HistInit

NextConv ==
    \/ \E text \in Texts(env.name) : Receive(text)
    \/ \E content \in Plans(env.name) : PlannerReply(content)
    \/ \E message \in Replies(env.name) : LlmReply(message)

SpecConv == InitConv /\ [][NextConv]_vars

---------------------------------------------------------------------------
(* The normalizer on its own: message lists of every shape up to           *)
(* MaxNormLen are handed to _normalize_messages_for_llm.                   *)

NormCall(id) == Call(id, "run_shell", ShellArgs(StrVal(<<"ls">>), NoneVal))

NormMsgs ==
    {SystemMsg(<<"s">>), UserMsg(<<"u">>), AssistantMsg(<<"a">>, <<>>),
     AssistantMsg(<<>>, <<NormCall("c1")>>),
     AssistantMsg(<<"t">>, <<NormCall("c1")>>),
     AssistantMsg(<<>>, <<NormCall("c1"), NormCall("c2")>>),
     ToolMsg("c1", <<"r1">>), ToolMsg("c2", <<"r2">>)}

InitNorm ==
    /\ EngineInit
    /\ env = [name |-> "shell", files |-> {}, stream |-> FALSE]
    /\ nIn = <<>>
    /\ nOut = <<>>
    /\ front = "daemon"
    /\ FrontInit
    /\ RoomsInit
    /\ LedgerInit
    /\ TrimInit
    /\ BootInit
    /\ GateInit
    /\ HistInit

NormAppend(m) ==
    /\ Len(nIn) < MaxNormLen
    /\ nIn' = Append(nIn, m)
    /\ nOut' = _normalize_messages_for_llm(nIn')
    /\ UNCHANGED notNorm

NextNorm == \E m \in NormMsgs : NormAppend(m)

SpecNorm == InitNorm /\ [][NextNorm]_vars

---------------------------------------------------------------------------
(* The front ends on their own.                                            *)

InitFront ==
    /\ EngineInit
    /\ env = [name |-> "shell", files |-> {}, stream |-> FALSE]
    /\ nIn = <<>>
    /\ nOut = <<>>
    /\ front \in Fronts
    /\ FrontInit
    /\ RoomsInit
    /\ LedgerInit
    /\ TrimInit
    /\ BootInit
    /\ GateInit
    /\ HistInit

NextFront ==
    \/ \E room_id \in Rooms : _handle_message(room_id)
    \/ _dispatch
    \/ \E room_id \in Rooms : dispatch_graph(room_id)
    \/ \E room_id \in Rooms : on_message(room_id)
    \/ \E t \in Tasks : Token(t)
    \/ \E t \in Tasks, how \in {"finished", "cancelled", "failed"} : TaskEnds(t, how)
    \/ \E t \in Tasks : Resume(t)
    \/ \E room_id \in Rooms : Stop(room_id)

SpecFront == InitFront /\ [][NextFront]_vars

---------------------------------------------------------------------------
(* Several rooms on one engine: every room has its checkpoint thread, and  *)
(* turns of different rooms interleave at their awaits.  alone[r] is the   *)
(* same room fed the same texts and completions on an engine of its own.   *)

RoomTexts == {Hi, Yes}

RoomReplies == {Final, AssistantMsg(<<"running">>, <<Ls>>)}

\* one checkpoint thread for every room
thread_id_shared(room_id) == "r1"

\* config={"configurable": {"thread_id": room_id}}
ThreadId(room_id) == room_id

\* a turn runs to its next await (it stays in flight) or to its end (the
\* checkpoint of its thread is written)
Advance(fl, M) ==
    IF Waits(M)
    THEN [fl EXCEPT !.pc = M.pc, !.st = M.st, !.cx = M.cx, !.req = M.req, !.ex = M.ex,
                    !.calls = @ + 1]
    ELSE [fl EXCEPT !.pc = "idle", !.st = M.st, !.cx = M.cx, !.req = M.req, !.ex = M.ex]

Written(old, M, text) ==
    IF Waits(M) THEN old
    ELSE IF M.pc = "raise" THEN Abort(old, M.st, text)
    ELSE Commit(old, M.st)

AsM(fl) == [st |-> fl.st, cx |-> fl.cx, pc |-> "run", req |-> fl.req, ex |-> fl.ex]

\* a saver that opens the file and reads nothing from it
load_nothing(payload) == [k \in Rooms |-> InitialState]

\* FileBackedSaver._persist: the payload pickled into the file; a checkpoint
\* lists its channels, the value of a channel is a blob under the key
\* (thread, channel)
Persist(store) ==
    [storage |-> [k \in DOMAIN store |-> DOMAIN store[k]],
     blobs |-> {<<k, ch, store[k][ch]>> : k \in DOMAIN store, ch \in DOMAIN InitialState}]

\* FileBackedSaver._load: the storage a new saver holds after reading the
\* file; a thread without a checkpoint starts from the defaults
Load(payload) ==
    [k \in Rooms |->
        IF k \in DOMAIN payload.storage
        THEN [ch \in payload.storage[k] |->
                 (CHOOSE b \in payload.blobs : b[1] = k /\ b[2] = ch)[3]]
        ELSE InitialState]

\* FileBackedSaver.put: the file is written after every checkpoint
Put(store, M) == IF Waits(M) THEN file ELSE Persist(store)

\* YabotGraph.ainvoke(room_id, text)
RoomReceive(room_id, text) ==
    LET k == ThreadId(room_id)
        fl == [flights[room_id] EXCEPT !.n = @ + 1, !.heard = @ \/ text = Yes,
                                       !.crossed = @ \/ (text = Yes /\ flights[room_id].reloaded),
                                       !.reloaded = FALSE]
        M == ProcessInput([storage[k] EXCEPT !.incoming = text], text)
        gl == [alone[room_id].flight EXCEPT !.n = @ + 1, !.heard = @ \/ text = Yes,
                                            !.crossed = fl.crossed, !.reloaded = FALSE]
        G == ProcessInput([alone[room_id].saved EXCEPT !.incoming = text], text)
    IN  /\ flights[room_id].pc = "idle"
        /\ flights[room_id].n < MaxRoomTurns
        /\ Waits(M) => flights[room_id].calls < MaxRoomCalls
        /\ flights' = [flights EXCEPT ![room_id] = Advance(fl, M)]
        /\ storage' = [storage EXCEPT ![k] = Written(@, M, text)]
        /\ file' = Put(storage', M)
        /\ alone' = [alone EXCEPT ![room_id] =
                        [saved |-> Written(alone[room_id].saved, G, text),
                         flight |-> Advance(gl, G)]]
        /\ UNCHANGED notRooms

\* LLMClient.create_message answers the completion request of the room's turn
RoomReply(room_id, message) ==
    LET k == ThreadId(room_id)
        fl == flights[room_id]
        M == OnCompletion(AsM(fl), Stamp(message, fl.calls))
        gl == alone[room_id].flight
        G == OnCompletion(AsM(gl), Stamp(message, gl.calls))
    IN  /\ fl.pc = "llm"
        /\ Waits(M) => fl.calls < MaxRoomCalls
        /\ flights' = [flights EXCEPT ![room_id] = Advance(fl, M)]
        /\ storage' = [storage EXCEPT ![k] = Written(@, M, fl.st.incoming)]
        /\ file' = Put(storage', M)
        /\ alone' = [alone EXCEPT ![room_id] =
                        IF gl.pc = "llm"
                        THEN [saved |-> Written(alone[room_id].saved, G, gl.st.incoming),
                              flight |-> Advance(gl, G)]
                        ELSE @]
        /\ UNCHANGED notRooms

\* the process ends with no turn in flight and a new one starts:
\* FileBackedSaver(path) reads the file, YabotGraph is built on the saver
Restart ==
    /\ \A r \in Rooms : flights[r].pc = "idle"
    /\ storage' = Load(file)
    /\ flights' = [r \in Rooms |->
                      [flights[r] EXCEPT !.reloaded =
                          storage'[ThreadId(r)].approvals.pending # NoPending]]
    /\ alone' = [r \in Rooms |->
                    [alone[r] EXCEPT !.flight.reloaded = flights'[r].reloaded]]
    /\ UNCHANGED <<file, notRooms>>

InitRooms ==
    /\ EngineInit
    /\ env = [name |-> "shell", files |-> {}, stream |-> FALSE]
    /\ nIn = <<>>
    /\ nOut = <<>>
    /\ front = "daemon"
    /\ FrontInit
    /\ RoomsInit
    /\ LedgerInit
    /\ TrimInit
    /\ BootInit
    /\ GateInit
    /\ HistInit

NextRooms ==
    \/ \E room_id \in Rooms, text \in RoomTexts : RoomReceive(room_id, text)
    \/ \E room_id \in Rooms, message \in RoomReplies : RoomReply(room_id, message)
    \/ Restart

SpecRooms == InitRooms /\ [][NextRooms]_vars

---------------------------------------------------------------------------
(* The shell ledger on its own: pairs of a command and a working directory *)
(* are approved one after the other.                                       *)

LedgerCommands == {<<"a">>, <<"a", "\n", "b">>, <<"ls">>}

LedgerWorkdirs == {NoneVal, StrVal(<<>>), StrVal(<<"c">>), StrVal(<<"b", "\n", "c">>)}

\* workdir or ''
WorkdirText(workdir) == IF workdir.t = "none" THEN <<>> ELSE StrOf(workdir)

InitLedger ==
    /\ EngineInit
    /\ env = [name |-> "shell", files |-> {}, stream |-> FALSE]
    /\ nIn = <<>>
    /\ nOut = <<>>
    /\ front = "daemon"
    /\ FrontInit
    /\ RoomsInit
    /\ LedgerInit
    /\ TrimInit
    /\ BootInit
    /\ GateInit
    /\ HistInit

\* YabotGraph._approve_shell(state, command, workdir)
ApproveShell(command, workdir) ==
    /\ ledger' = _approve_shell(ledger, command, workdir)
    /\ applied' = applied \cup {<<command, workdir>>}
    /\ UNCHANGED notLedger

NextLedger == \E command \in LedgerCommands, workdir \in LedgerWorkdirs : ApproveShell(command, workdir)

SpecLedger == InitLedger /\ [][NextLedger]_vars

---------------------------------------------------------------------------
(* The trimmer on its own: message lists of every shape up to MaxTrimLen   *)
(* are handed to trim_messages for a model and a max_turns.                *)

TrimMsgs ==
    {SystemMsg(<<"s">>), UserMsg(<<"u">>), AssistantMsg(<<"a">>, <<>>),
     SystemMsg(<<"<long>">>), UserMsg(<<"<long>">>), UserMsg(<<"<huge>">>)}

TrimModels == {"gpt-4o-mini", "gpt-5.2"}

InitTrim ==
    /\ EngineInit
    /\ env = [name |-> "shell", files |-> {}, stream |-> FALSE]
    /\ nIn = <<>>
    /\ nOut = <<>>
    /\ front = "daemon"
    /\ FrontInit
    /\ RoomsInit
    /\ LedgerInit
    /\ tIn = <<>>
    /\ tOut = <<>>
    /\ tCfg \in [model : TrimModels, max_turns : 0..MaxTrimTurns]
    /\ BootInit
    /\ GateInit
    /\ HistInit

\* trim_messages(messages, model, max_turns)
TrimAppend(m) ==
    /\ Len(tIn) < MaxTrimLen
    /\ tIn' = Append(tIn, m)
    /\ tOut' = TrimToBudget(tIn', input_budget(tCfg.model), tCfg.max_turns)
    /\ UNCHANGED <<tCfg, notTrim>>

NextTrim == \E m \in TrimMsgs : TrimAppend(m)

SpecTrim == InitTrim /\ [][NextTrim]_vars

---------------------------------------------------------------------------
(* The console front end connecting to the daemon: one call of             *)
(* cli_runtime.ensure_daemon, one step per connection attempt.             *)

\* the exceptions client.connect() raises
ConnectErrors == {"refused", "timeout"}

\* a guard that spawns after every failed attempt
spawn_whenever(autostart, spawned) == autostart

\* ensure_daemon, line 29: if autostart and not spawned
ShouldSpawn(autostart, spawned) == autostart /\ ~spawned

InitBoot ==
    /\ EngineInit
    /\ env = [name |-> "shell", files |-> {}, stream |-> FALSE]
    /\ nIn = <<>>
    /\ nOut = <<>>
    /\ front = "cli"
    /\ FrontInit
    /\ RoomsInit
    /\ LedgerInit
    /\ TrimInit
    /\ \E r \in 1..MaxRetries, a \in BOOLEAN, d \in {0, 2} :
          boot = [NoBoot EXCEPT !.retries = r, !.autostart = a, !.delay = d]
    /\ GateInit
    /\ HistInit

\* ensure_daemon, lines 23-26: an iteration of the loop whose connect succeeds
Connected ==
    /\ boot.pc = "loop"
    /\ Len(boot.log) < boot.retries
    /\ boot' = [boot EXCEPT !.log = Append(@, "ok"), !.pc = "returned"]
    /\ UNCHANGED notBoot

\* ensure_daemon, lines 23-35: an iteration of the loop whose connect raises
\* exc; after the last iteration the function raises last_error
ConnectFails(exc) ==
    LET spawn == ShouldSpawn(boot.autostart, boot.spawned)
        made == Len(boot.log) + 1
    IN  /\ boot.pc = "loop"
        /\ Len(boot.log) < boot.retries
        /\ boot' = [boot EXCEPT
                       !.log = Append(@, exc),
                       !.last_error = exc,
                       !.proc = IF spawn THEN TRUE ELSE @,
                       !.spawned = IF spawn THEN TRUE ELSE @,
                       !.spawns = IF spawn THEN @ + 1 ELSE @,
                       !.spawned_after = IF spawn THEN made ELSE @,
                       !.sleeps = IF boot.delay # 0 THEN @ + 1 ELSE @,
                       !.pc = IF made = boot.retries THEN "raised" ELSE "loop",
                       !.raised = IF made = boot.retries THEN exc ELSE ""]
        /\ UNCHANGED notBoot

NextBoot ==
    \/ Connected
    \/ \E exc \in ConnectErrors : ConnectFails(exc)

SpecBoot == InitBoot /\ [][NextBoot]_vars

---------------------------------------------------------------------------
(* The approval gate on its own: batches of every shape up to MaxGateLen   *)
(* are handed to _first_missing_approval under a ledger.                   *)

AgentAsk == Call("", "agent_ask", NoArgs)

GateCalls == {Ls, LsIn, ListSub, ReadDeep, CreateNum, Ask, Demo, AgentAsk,
              WriteSub, ListOther, ListCwd}

\* ledgers: empty, with the command ls, with the directory sub, with both
GateLedgers ==
    LET none == InitialState.approvals
        shell == _approve_shell(none, <<"ls">>, NoneVal)
    IN  {none, shell, _approve_dir(none, <<"sub">>), _approve_dir(shell, <<"sub">>)}

InitGate ==
    /\ EngineInit
    /\ env = [name |-> "shell", files |-> {}, stream |-> FALSE]
    /\ nIn = <<>>
    /\ nOut = <<>>
    /\ front = "daemon"
    /\ FrontInit
    /\ RoomsInit
    /\ LedgerInit
    /\ TrimInit
    /\ BootInit
    /\ \E approvals \in GateLedgers :
          gate = [NoGate EXCEPT !.approvals = approvals, !.before = approvals]
    /\ HistInit

\* YabotGraph._first_missing_approval(state, tool_calls) for the batch grown
\* by one call
GateAppend(call) ==
    /\ Len(gate.tool_calls) < MaxGateLen
    /\ gate' = [gate EXCEPT
                   !.tool_calls = Append(@, call),
                   !.out = _first_missing_approval(gate.approvals,
                                                   Append(gate.tool_calls, call))]
    /\ UNCHANGED notGate

\* the user answers the prompt for the request with 'y' and the batch is
\* taken to the gate again
GateApprove ==
    /\ gate.out # NoRequest
    /\ LET approvals == ApproveRequest(gate.approvals, gate.out) IN
       gate' = [gate EXCEPT
                   !.approvals = approvals,
                   !.before = gate.approvals,
                   !.granted = @ \cup {gate.out},
                   !.out = _first_missing_approval(approvals, gate.tool_calls)]
    /\ UNCHANGED notGate

NextGate ==
    \/ \E call \in GateCalls : GateAppend(call)
    \/ GateApprove

SpecGate == InitGate /\ [][NextGate]_vars

---------------------------------------------------------------------------
(* The tool-call history on its own: batches of every size in BatchSizes   *)
(* are recorded for either agent until MaxRecorded calls were emitted for  *)
(* it.  The k-th call emitted for an agent has the id k.                   *)

BatchSizes == {1, 2, MaxToolHistory + 1}

\* the batch of n calls the model emits for the agent next
EmittedBatch(agent, n) ==
    [i \in 1..n |-> Call(recorded[agent] + i, "run_shell",
                         ShellArgs(StrVal(<<"ls">>), NoneVal))]

InitHist ==
    /\ EngineInit
    /\ env = [name |-> "shell", files |-> {}, stream |-> FALSE]
    /\ nIn = <<>>
    /\ nOut = <<>>
    /\ front = "daemon"
    /\ FrontInit
    /\ RoomsInit
    /\ LedgerInit
    /\ TrimInit
    /\ BootInit
    /\ GateInit
    /\ HistInit

\* _run_llm_loop, lines 702-703: agent_record_tool_calls(state, agent_name,
\* tool_calls) for a batch of n calls
RecordBatch(agent, n) ==
    /\ recorded[agent] + n <= MaxRecorded
    /\ state' = agent_record_tool_calls(state, agent, EmittedBatch(agent, n))
    /\ recorded' = [recorded EXCEPT ![agent] = @ + n]
    /\ UNCHANGED notHist

NextHist == \E agent \in AGENT_NAMES, n \in BatchSizes : RecordBatch(agent, n)

SpecHist == InitHist /\ [][NextHist]_vars



---------------------------------------------------------------------------
(* Claims.                                                                 *)

\* the tool message at position i of out answers a call of the assistant
\* message that opens its run of tool messages
Answered(out, i) ==
    \E k \in 1..(i - 1) :
        /\ out[k].role = "assistant"
        /\ out[i].tool_call_id \in CallIds(out[k].tool_calls)
        /\ \A j \in (k + 1)..(i - 1) : out[j].role = "tool"

\* every call id of the assistant message at position k of out has its tool
\* message in the run of tool messages that follows
AllAnswered(out, k) ==
    \A id \in CallIds(out[k].tool_calls) :
        \E i \in (k + 1)..Len(out) :
            /\ out[i].role = "tool" /\ out[i].tool_call_id = id
            /\ \A j \in (k + 1)..(i - 1) : out[j].role = "tool"

\* C5: in the normalized list every tool message is preceded, with only tool
\* messages in between, by an assistant message whose tool_calls contain its
\* tool_call_id, and every assistant message that keeps tool_calls is
\* followed by a tool message for each of its call ids.
C5_ToolOrdering ==
    /\ \A i \in 1..Len(nOut) : nOut[i].role = "tool" => Answered(nOut, i)
    /\ \A k \in 1..Len(nOut) :
          (nOut[k].role = "assistant" /\ nOut[k].tool_calls # <<>>) => AllAnswered(nOut, k)


\* the canonical directory c equals or lies under a directory of the ledger
UnderLedger(dirs, c) == \E d \in dirs : IsPrefix(Resolve(d), c)

\* C1: every run_shell call the dispatcher executed has its (command, workdir)
\* in the room's shell ledger, and every list_dir, read_file, write_file or
\* create_dir call it executed touches a directory that equals or lies under
\* a directory of the room's dirs ledger.
C1_ExecutedWithinLedger ==
    \A i \in 1..Len(executed) :
        /\ (executed[i].ran /\ executed[i].name = "run_shell")
              => _shell_key(executed[i].command, executed[i].workdir)
                     \in state.approvals.shell
        /\ (executed[i].ran /\ executed[i].touches)
              => UnderLedger(state.approvals.dirs, executed[i].dir)


---------------------------------------------------------------------------
(* Turns, as the claims speak of them.                                     *)

\* a turn has returned and its checkpoint is written
TurnOver == pc = "idle" /\ turn.n > 0 /\ ~turn.raised

\* the pending record the current turn found
OldPending == turn.before.approvals.pending

\* the text is "y", whatever its case and the whitespace around it
IsYes(text) ==
    LET words == SelectSeq(text, LAMBDA w : w \notin White)
    IN  Len(words) = 1 /\ words[1] \in {"y", "Y"}

\* the dispatcher ran this shell command in the current turn
RanShell(command, workdir) ==
    \E i \in 1..Len(executed) :
        /\ executed[i].ran /\ executed[i].name = "run_shell"
        /\ executed[i].command = command /\ executed[i].workdir = workdir

\* no call of the batch was handed to the dispatcher in the current turn
NoneRan(tool_calls) ==
    \A i \in 1..Len(executed) : executed[i].id \notin CallIds(tool_calls)

Last(s) == s[Len(s)]

\* the current turn answers "y" to a shell approval prompt
ShellGranted ==
    turn.n > 0 /\ OldPending.request.kind = "shell" /\ IsYes(turn.text)

\* the same, and the dispatcher has not raised in the turn
ShellGrantedSafely == ShellGranted /\ ~turn.raised

\* a turn that ends on a shell approval request returns its prompt, the pair
\* is not in the ledger and no call of the batch ran
ShellPromptHeld ==
    (TurnOver /\ saved.approvals.pending.request.kind = "shell") =>
        LET p == saved.approvals.pending IN
        /\ Last(saved.responses) = _approval_prompt(p.request)
        /\ ~_is_shell_approved(saved.approvals, p.request.command, p.request.workdir)
        /\ NoneRan(p.tool_calls)

\* "y" records the pair, and nothing else, in the ledger
ShellGrantRecorded ==
    ShellGrantedSafely =>
        /\ _is_shell_approved(state.approvals, OldPending.request.command,
                              OldPending.request.workdir)
        /\ state.approvals.shell = turn.before.approvals.shell
               \cup {_shell_key(OldPending.request.command, OldPending.request.workdir)}
        /\ state.approvals.dirs = turn.before.approvals.dirs

---------------------------------------------------------------------------
(* Directory scopes.                                                       *)

\* path strings on which the answer of _is_dir_approved is compared with
\* the canonical paths of the ledger
ScopeSamples ==
    {<<>>, <<"sub">>, <<"sub", "deep">>, <<"sub", "..", "other">>, <<"other">>,
     <<"/", "w">>, <<"/", "w", "sub", "deep", "f">>, <<"/">>, <<"~", "x">>, <<"~">>}

\* every call of the batch was handed to the dispatcher in the current turn
AllRan(tool_calls) ==
    \A id \in CallIds(tool_calls) : \E i \in 1..Len(executed) : executed[i].id = id

\* the current turn answers "y" to a directory approval prompt and the
\* dispatcher has not raised in it
DirGrantedSafely ==
    /\ turn.n > 0 /\ ~turn.raised
    /\ OldPending.request.kind = "dir" /\ IsYes(turn.text)

\* C3: once a directory is approved in a room, the gate raises no request
\* for a list_dir or create_dir call whose target is that directory or lies
\* under it, nor for a read_file or write_file call on a file in it or under
\* it: a directory request is raised only for a directory that neither
\* equals nor descends from a ledger directory; the approval stays in later
\* turns, and in the turn of the "y" the captured batch runs once all of its
\* calls are covered; _is_dir_approved(path) is true exactly when the
\* canonical path equals or descends from an approved canonical directory.
C3_DirScopeCoversDescendants ==
    /\ state.approvals.pending.request.kind = "dir"
          => ~UnderLedger(state.approvals.dirs,
                          Resolve(state.approvals.pending.request.dir))
    /\ \A path \in ScopeSamples :
          _is_dir_approved(state.approvals, path)
              <=> UnderLedger(state.approvals.dirs, Resolve(path))
    /\ turn.before.approvals.dirs \subseteq state.approvals.dirs
    /\ DirGrantedSafely =>
          /\ _is_dir_approved(state.approvals, OldPending.request.dir)
          /\ _first_missing_approval(state.approvals, OldPending.tool_calls) = NoRequest
                => AllRan(OldPending.tool_calls)

\* a read_file call ran, unprompted, in a directory that is not in the
\* ledger itself but lies under a directory approved in an earlier turn
C3_Witness ==
    /\ ctx.route = "fresh"
    /\ \E i \in 1..Len(executed) :
          /\ executed[i].ran /\ executed[i].name = "read_file" /\ executed[i].touches
          /\ PathStr(executed[i].dir) \notin state.approvals.dirs
          /\ UnderLedger(turn.before.approvals.dirs, executed[i].dir)


---------------------------------------------------------------------------
(* Denial.                                                                 *)

\* the current turn answers an approval prompt with a text other than "y",
\* and the dispatcher has not raised in it
Denied ==
    /\ turn.n > 0 /\ ~turn.raised
    /\ OldPending.request.kind \in {"shell", "dir"}
    /\ ~IsYes(turn.text)

\* the first request of the current turn is waiting for its completion
FirstRequest == pc = "llm" /\ turn.reqs = 1

\* the message carries none of the calls of the batch
CarriesNone(message, tool_calls) ==
    /\ CallIds(message.tool_calls) \cap CallIds(tool_calls) = {}
    /\ message.role = "tool" => message.tool_call_id \notin CallIds(tool_calls)

\* C4: a reply other than "y" to an approval prompt clears the pending
\* record, executes none of the captured tool calls, adds nothing to the
\* ledger, and sends the model a new request whose last message is the user
\* message "Approval denied. Feedback: <text>"; no message of that request
\* carries a captured tool call.
C4_DenialWithFeedback ==
    Denied =>
        /\ state.approvals.pending # OldPending
        /\ NoneRan(OldPending.tool_calls)
        /\ state.approvals.shell = turn.before.approvals.shell
        /\ state.approvals.dirs = turn.before.approvals.dirs
        /\ FirstRequest =>
              /\ state.approvals.pending = NoPending
              /\ request.kind = "chat"
              /\ Last(request.messages)
                     = UserMsg(<<"Approval denied. Feedback: ">> \o Strip(turn.text))
              /\ \A i \in 1..Len(request.messages) :
                    CarriesNone(request.messages[i], OldPending.tool_calls)

\* the request that follows a denial is out, with the text of the refused
\* assistant message kept and its tool calls gone
C4_Witness ==
    /\ Denied /\ FirstRequest
    /\ OldPending.assistant.content # <<>>
    /\ \E i \in 1..Len(request.messages) :
          request.messages[i] = AssistantMsg(OldPending.assistant.content, <<>>)


---------------------------------------------------------------------------
(* Clarification.                                                          *)

\* the question a pending ask_user record asks
QuestionOf(pending) ==
    LET asked == SelectSeq(pending.assistant.tool_calls,
                           LAMBDA c : c.id = pending.request.tool_call_id)
        question == Strip(StrOf(LoadArgs(asked[1].arguments).question))
    IN  IF question # <<>> THEN question ELSE <<"Can you clarify?">>

\* C6: when a model batch contains an ask_user call, alone or together with
\* other calls, the turn suspends with the question as its response and no
\* tool of the batch executes; the next inbound text, whatever it is, is
\* taken as the answer, and the next request sent to the model contains a
\* tool message whose content is that text and whose tool_call_id is the
\* captured ask_user call id.
C6_ClarificationFlow ==
    /\ (TurnOver /\ saved.approvals.pending.request.kind = "ask_user") =>
          /\ Last(saved.responses) = QuestionOf(saved.approvals.pending)
          /\ NoneRan(saved.approvals.pending.assistant.tool_calls)
    /\ (turn.n > 0 /\ OldPending.request.kind = "ask_user") =>
          /\ ctx.route = "ask"
          /\ FirstRequest =>
                \E i \in 1..Len(request.messages) :
                    request.messages[i]
                        = ToolMsg(OldPending.request.tool_call_id, turn.text)


---------------------------------------------------------------------------
(* Plans.                                                                  *)

\* the turn that has returned planned its input: N >= 1 steps came back
PlannedTurn == TurnOver /\ ctx.route = "fresh" /\ ctx.plan_steps # <<>>

\* the step headers among the responses, in the order they were returned
HeadersIn(responses, steps) ==
    SelectSeq(responses,
              LAMBDA r : \E i \in 1..Len(steps) :
                             r = StepHeader(i - 1, Len(steps), steps[i]))

\* C7: for every turn whose input is classified complex and whose planner
\* call yields N >= 1 steps, whether all steps complete in the turn or one
\* of them suspends, the returned responses begin with the plan listing,
\* followed, for each step i run in the turn in increasing order, by the
\* header "Step i/N: <step>" and that step's own responses.
C7_PlanRoundTrip ==
    PlannedTurn =>
        LET steps == ctx.plan_steps
            r == saved.responses
            headers == HeadersIn(r, steps)
        IN  /\ Len(r) >= 3
            /\ r[1] = PlanListing(steps)
            /\ r[2] = StepHeader(0, Len(steps), steps[1])
            /\ \A k \in 1..Len(headers) :
                  headers[k] = StepHeader(k - 1, Len(steps), steps[k])
            /\ Last(r) \notin Range(headers)


\* the turn that has returned suspended inside a plan step
SuspendedInStep ==
    TurnOver /\ ctx.in_steps /\ saved.approvals.pending # NoPending

\* the turn that has returned ran the last step of its plan to completion
LastStepDone ==
    /\ TurnOver /\ ctx.in_steps /\ ctx.steps # <<>>
    /\ ctx.index = Len(ctx.steps) /\ saved.approvals.pending = NoPending

\* the current turn answers "y" to an approval prompt raised in a plan step
StepGranted ==
    /\ TurnOver /\ turn.before.has_plan
    /\ OldPending.request.kind \in {"shell", "dir"} /\ IsYes(turn.text)

\* C8: if a plan step's tool call needs approval, the turn suspends with that
\* step's approval prompt and the persisted plan index stays at that step;
\* after the reply "y" the same step continues from its captured tool calls,
\* its header is not issued a second time, then the index advances and the
\* remaining steps run in order, and the plan state is cleared after the last
\* step.
C8_PlanSuspendResume ==
    /\ (SuspendedInStep /\ saved.approvals.pending.request.kind \in {"shell", "dir"}) =>
          /\ Last(saved.responses) = _approval_prompt(saved.approvals.pending.request)
          /\ saved.has_plan /\ saved.plan_index = ctx.index
          /\ saved.plan_index < Len(saved.plan_steps)
    /\ StepGranted =>
          LET steps == turn.before.plan_steps
              at == turn.before.plan_index
          IN  StepHeader(at, Len(steps), steps[at + 1]) \notin Range(saved.responses)
    /\ LastStepDone => (~saved.has_plan /\ saved.plan_steps = <<>>)


---------------------------------------------------------------------------
(* Commands.                                                               *)

\* the command words of the help text that the environment types
CommandWords == {"model", "become", "new", "reset"}

\* the text begins with a recognized command marker
BeginsWithCommand(text) ==
    Len(text) >= 2 /\ text[1] = "!" /\ text[2] \in CommandWords

\* the text is one command line: the marker, then nothing or white space and
\* an argument without a line break
IsCommandLine(text) ==
    /\ BeginsWithCommand(text)
    /\ Len(text) > 2 => (text[3] \in White /\ ~HasNewline(text))

\* the active conversation of the room before the current turn, with the
\* system messages that the start of every turn adds to it
Preamble ==
    LET st == turn.before
        agent == st.active_agent
        conv == st.agents[agent].conversations[st.agents[agent].active]
    IN  _ensure_system_prompt(conv.messages, _system_prompt_for_agent(agent))
        \o _inject_agents_messages(AgentsFiles, conv.agents_loaded,
                                   <<PathStr(Cwd)>>).injected

\* the histories after a command turn: those before it, but for the preamble
\* and the command's own effect (!reset empties the active conversation, !new
\* adds an empty conversation)
HistoriesKept(word) ==
    LET old == turn.before
        agent == old.active_agent
        cid == old.agents[agent].active
    IN  \A a \in AGENT_NAMES :
            LET was == old.agents[a].conversations
                now == saved.agents[a].conversations
            IN  /\ DOMAIN was \subseteq DOMAIN now
                /\ DOMAIN now # DOMAIN was => (word = "new" /\ a = agent)
                /\ \A c \in DOMAIN now \ DOMAIN was : now[c].messages = <<>>
                /\ \A c \in DOMAIN was :
                      now[c].messages =
                          IF a = agent /\ c = cid
                          THEN (IF word = "reset" THEN <<>> ELSE Preamble)
                          ELSE was[c].messages

\* a command turn: handled by command handling, no request to the model,
\* histories kept
CommandHandled ==
    /\ ctx.route = "command"
    /\ pc = "idle" /\ turn.reqs = 0 /\ ~turn.raised
    /\ HistoriesKept(turn.text[2])

---------------------------------------------------------------------------
(* Pending routing.                                                        *)

\* the way the reply to the pending record of the current turn is consumed
ReplyRoute ==
    IF OldPending.request.kind = "ask_user" THEN "ask"
    ELSE IF IsYes(turn.text) THEN "approve"
    ELSE "deny"

---------------------------------------------------------------------------
(* Failed and cancelled turns.                                             *)

\* what a room persists besides the incoming text: every conversation (with
\* its history), the approval ledger, the pending record and the plan state
PersistedParts(st) ==
    [agents |-> st.agents, active_agent |-> st.active_agent,
     approvals |-> st.approvals,
     plan |-> <<st.has_plan, st.plan_steps, st.plan_index>>]

\* the grant the request asks for is in the ledger
Granted(approvals, req) ==
    IF req.kind = "shell" THEN _is_shell_approved(approvals, req.command, req.workdir)
    ELSE IF req.kind = "dir" THEN _is_dir_approved(approvals, req.dir)
    ELSE FALSE

\* C11: if a turn is cancelled or the model call raises while the turn is in
\* flight, the room's persisted state after the turn (histories, ledger,
\* pending record, plan state) equals the persisted state before the turn,
\* and nothing is persisted while the turn is in flight; a grant and the
\* clearing of its pending record are persisted together or not at all: no
\* snapshot holds a pending request whose grant is in the ledger, nor a
\* request cleared by "y" without its grant.
C11_AtomicTurnCommit ==
    /\ (turn.n > 0 /\ (pc # "idle" \/ turn.raised))
          => PersistedParts(saved) = PersistedParts(turn.before)
    /\ ~Granted(saved.approvals, saved.approvals.pending.request)
    /\ (turn.n > 0 /\ OldPending.request.kind \in {"shell", "dir"} /\ IsYes(turn.text))
          => \/ /\ saved.approvals.pending = OldPending
                /\ saved.approvals = turn.before.approvals
             \/ /\ saved.approvals.pending # OldPending
                /\ Granted(saved.approvals, OldPending.request)

\* a turn that had recorded a grant and run its batch was cancelled: the
\* snapshot still holds the pending request and no grant
C11_Witness ==
    /\ pc = "idle" /\ turn.why = "cancel"
    /\ OldPending.request.kind = "dir" /\ IsYes(turn.text)
    /\ AllRan(OldPending.tool_calls)
    /\ saved.approvals.pending = OldPending


\* C12: a stop request for a room is answered true exactly when a turn task
\* of that room is in flight (started and not finished); it then requests
\* the cancellation of a task of that room that is in flight.  After any
\* interleaving of register, clear and stop, overlapping turns included.
C12_StopExact ==
    stopped # NoStop =>
        /\ stopped.ok = (stopped.running # {})
        /\ stopped.ok => /\ stopped.target \in stopped.running
                         /\ tasks[stopped.target].must_cancel


\* the history entries of role that stand for turn t
EntriesOf(t, role) ==
    {<<r, i>> \in Rooms \X (1..(max_turns * 2)) :
        i <= Len(history[r]) /\ history[r][i].turn = t /\ history[r][i].role = role}

\* C13: a turn cancelled through stop is reported to its requester as
\* 'cancelled' (by the daemon and the console) and never as a 'response',
\* and no assistant message standing for the cancelled turn is added to the
\* conversation history.
C13_CancelledOutcome ==
    \A t \in Tasks :
        (tasks[t].must_cancel /\ tasks[t].reported # "") =>
            /\ tasks[t].reported # "response"
            /\ tasks[t].front \in {"daemon", "cli"} => tasks[t].reported = "cancelled"
            /\ EntriesOf(t, "assistant") = {}


\* C15: the daemon and the console never have two turns in flight for the
\* same room id.
C15_OneTurnPerRoom ==
    \A r \in Rooms :
        Cardinality({t \in InFlight(tasks, r) : tasks[t].front \in {"daemon", "cli"}}) <= 1


\* C16: every token or streamed line of a turn is delivered only to the sink
\* of that turn, a turn started without a sink delivers to no sink, and once
\* a turn has ended (returned, failed or cancelled) no context holds its
\* sink binding.
C16_SinkIsolation ==
    /\ \A d \in delivered : tasks[d.turn].stream /\ d.sink = d.turn
    /\ \A t \in Tasks : done(tasks, t) => \A c \in DOMAIN binding : binding[c] # t

\* a streaming turn has delivered a token while a turn without a sink of
\* another room is in flight
C16_Witness ==
    /\ tasks[1].stream /\ tasks[1].state = "running"
    /\ [turn |-> 1, sink |-> 1] \in delivered
    /\ ~tasks[2].stream /\ tasks[2].state = "running" /\ tasks[2].room # tasks[1].room


C17_ShellApprovalExact ==
    \A c \in LedgerCommands, w \in LedgerWorkdirs :
        _is_shell_approved(ledger, c, w)
            <=> \E p \in applied : p[1] = c /\ WorkdirText(p[2]) = WorkdirText(w)


\* the trimmer for the configuration of the run
Trim(messages) == TrimToBudget(messages, input_budget(tCfg.model), tCfg.max_turns)

\* what the first phase of the trimmer keeps, read as in the documentation:
\* all system messages and the last 2 * max_turns others
RecentTurns(messages) ==
    SelectMsgs(messages, "system") \o LastN(RejectMsgs(messages, "system"), tCfg.max_turns * 2)

\* C18: trimming is idempotent: trimming the trimmed list for the same model
\* and max_turns gives the trimmed list, also when the first trim evicted
\* messages to fit the token budget.
C18_TrimIdempotent == Trim(tOut) = tOut

\* a list whose trim evicted messages and kept some
C18_Witness ==
    /\ tOut # <<>>
    /\ Len(tOut) < Len(RecentTurns(tIn))
    /\ tCfg.max_turns > 0
    /\ Trim(tOut) = tOut

\* C19: when the kept messages fit the input budget, trim returns exactly
\* the system messages of the input and the last 2 * max_turns non-system
\* messages (all of them when fewer exist), for every max_turns >= 0.
C19_TrimKeepsRecentTurns ==
    estimate_messages_tokens(RecentTurns(tIn)) <= input_budget(tCfg.model)
        => tOut = RecentTurns(tIn)

\* C20: trim returns the empty list or a list whose estimate (the sum of the
\* per-message estimates and the priming overhead) is within the input
\* budget.
C20_TrimFitsBudget ==
    tOut = <<>> \/ estimate_messages_tokens(tOut) <= input_budget(tCfg.model)


\* C21: what a new engine instance reads from the checkpoint file is what
\* the previous instance last persisted, and a room continued by a new
\* instance (its histories, ledger, pending record, plan state, responses
\* and the turn it runs) is the room as it is without the restart; a
\* pending approval saved by one instance is resolved by the next one.
C21_CheckpointRoundTrip ==
    /\ file # NoFile => Load(file) = storage
    /\ \A r \in Rooms :
          /\ storage[ThreadId(r)] = alone[r].saved
          /\ flights[r].st = alone[r].flight.st
          /\ flights[r].ex = alone[r].flight.ex

\* the request of room r1 was saved by one instance, the reply 'y' came to
\* the instance that read it from the file and ran the command
C21_Witness ==
    /\ flights["r1"].crossed
    /\ flights["r1"].pc = "idle"
    /\ \E i \in 1..Len(flights["r1"].ex) : flights["r1"].ex[i].ran
    /\ storage["r1"].approvals.shell # {}


---------------------------------------------------------------------------
(* C22.                                                                    *)

\* the active id of every agent is a key of the agent's conversation map, and
\* the room-level keys are those of the active agent
ActiveResolves(st) ==
    /\ \A a \in AGENT_NAMES : st.agents[a].active \in DOMAIN st.agents[a].conversations
    /\ st.conversations = st.active_agent
    /\ st.active = st.agents[st.active_agent].active

\* C22: after any sequence of turns and commands (!new, !use with a known or
\* an unknown id, !become, !reset, !model) the active conversation id of each
\* agent is a key of that agent's conversation map, and the room-level active
\* id and conversation map are those of the active agent; this holds of the
\* checkpoint and of the state of the turn in flight
C22_ActiveResolves ==
    /\ ActiveResolves(saved)
    /\ ActiveResolves(state)

\* the room became main, opened a conversation there and went back to the
\* first conversation of main with !use
C22_Witness ==
    /\ pc = "idle"
    /\ env.name = "conv"
    /\ turn.text = <<"!", "use", " ", "1">>
    /\ saved.active_agent = "main"
    /\ saved.active = 1
    /\ DOMAIN saved.agents["main"].conversations = {1, 3}


---------------------------------------------------------------------------
(* C23.                                                                    *)

\* C23: in every persisted snapshot the plan state (steps and index) is
\* present only while a plan is in flight, that is while the room holds a
\* pending record raised inside a plan step; if it is present the index is
\* smaller than the number of steps, and when the turn that returned was
\* suspended in a step the index is that step's; after the turn in which the
\* last step completes the snapshot holds no plan state.
C23_PlanStateInvariant ==
    /\ saved.has_plan =>
          /\ saved.approvals.pending # NoPending
          /\ saved.plan_index < Len(saved.plan_steps)
    /\ (SuspendedInStep /\ saved.has_plan) => saved.plan_index = ctx.index
    /\ LastStepDone => ~saved.has_plan


---------------------------------------------------------------------------
(* C24.                                                                    *)

\* the connection attempts that failed
FailedAttempts == {i \in 1..Len(boot.log) : boot.log[i] # "ok"}

\* C24: ensure_daemon makes at most retries connection attempts and returns
\* as soon as one succeeds (a success is the last attempt, and the call has
\* returned exactly when its last attempt succeeded); spawn is called at most
\* once over all attempts, only after a failed attempt and only when
\* autostart is on; when every one of the retries attempts failed the call
\* raises the error of the last attempt.
C24_EnsureDaemon ==
    /\ Len(boot.log) <= boot.retries
    /\ \A i \in 1..Len(boot.log) : boot.log[i] = "ok" => i = Len(boot.log)
    /\ boot.pc = "returned" <=> (boot.log # <<>> /\ Last(boot.log) = "ok")
    /\ boot.spawns <= 1
    /\ boot.spawns = 1 =>
          /\ boot.autostart
          /\ boot.spawned_after \in FailedAttempts
    /\ ~boot.autostart => (boot.spawns = 0 /\ ~boot.proc)
    /\ (Len(boot.log) = boot.retries /\ FailedAttempts = 1..boot.retries)
          <=> boot.pc = "raised"
    /\ boot.pc = "raised" => boot.raised = Last(boot.log)

\* the third attempt succeeded after two failures, the daemon was spawned once
C24_Witness ==
    /\ boot.pc = "returned"
    /\ boot.retries = 3
    /\ Len(boot.log) = 3
    /\ boot.spawns = 1
    /\ boot.proc


---------------------------------------------------------------------------
(* C25.                                                                    *)

\* the current turn answers "y" to an approval prompt
ApprovalResumed ==
    turn.n > 0 /\ OldPending.request.kind \in {"shell", "dir"} /\ IsYes(turn.text)

\* the message list holds the assistant message of the batch followed by one
\* tool message per call of the batch, in batch order
BatchAnswered(messages, assistant, tool_calls) ==
    \E i \in 1..Len(messages) :
        /\ messages[i] = assistant
        /\ i + Len(tool_calls) <= Len(messages)
        /\ \A k \in 1..Len(tool_calls) :
              /\ messages[i + k].role = "tool"
              /\ messages[i + k].tool_call_id = tool_calls[k].id

\* C25: after the reply "y" to an approval suspension the grant for the
\* pending request is in the ledger for the rest of the turn; every request
\* sent to the model in that turn is sent after the whole captured batch was
\* handed to the dispatcher, the batch having passed the gate; and the first
\* request of the turn holds the batch's assistant message followed by the
\* tool result of every call of the batch, so the model is called again only
\* once the results exist and is never asked for the batch a second time.
C25_ReplayCapturedBatch ==
    ApprovalResumed =>
        /\ (pc # "idle" \/ ~turn.raised) =>
              /\ Granted(state.approvals, OldPending.request)
              /\ turn.reqs >= 1 =>
                    _first_missing_approval(state.approvals, OldPending.tool_calls) = NoRequest
        /\ turn.reqs >= 1 => AllRan(OldPending.tool_calls)
        /\ (pc = "llm" /\ turn.reqs = 1) =>
              BatchAnswered(request.messages, OldPending.assistant, OldPending.tool_calls)

\* a batch of two shell calls, approved one after the other, has run and
\* its results are in the first request of the turn
C25_Witness ==
    /\ ApprovalResumed
    /\ pc = "llm"
    /\ turn.reqs = 1
    /\ Len(OldPending.tool_calls) = 2
    /\ AllRan(OldPending.tool_calls)


---------------------------------------------------------------------------
(* C26.                                                                    *)

\* the history of the conversation the resumed turn worked on
ResumedHistory ==
    LET agent == OldPending.agent
    IN  saved.agents[agent].conversations[turn.before.agents[agent].active].messages

\* the history holds the tool message of the call
HoldsResult(messages, id) ==
    \E j \in 1..Len(messages) :
        messages[j].role = "tool" /\ messages[j].tool_call_id = id

\* C26: when a turn ran tool batches before a later batch of it suspended,
\* then after the turn that resolves the suspension and completes, the
\* conversation history holds the tool result of every call that ran before
\* the suspension (read for histories short enough that trimming removed
\* nothing).
C26_MessagesSurviveSuspension ==
    (/\ TurnOver
     /\ OldPending # NoPending
     /\ saved.approvals.pending = NoPending
     /\ Len(RejectMsgs(ResumedHistory, "system")) < 2 * max_turns) =>
        \A i \in 1..Len(turn.earlier) :
            turn.earlier[i].ran => HoldsResult(ResumedHistory, turn.earlier[i].id)


---------------------------------------------------------------------------
(* C27.                                                                    *)

\* the message the resumption of the current turn added for the user's
\* reply: the denial message, or the tool message that carries the answer
SyntheticMessage ==
    IF OldPending.request.kind = "ask_user"
    THEN ToolMsg(OldPending.request.tool_call_id, Strip(turn.text))
    ELSE UserMsg(<<"Approval denied. Feedback: ">> \o Strip(turn.text))

\* the current turn resumed a clarification, or an approval with a denial
AnswerOrDenialResumed ==
    /\ turn.n > 0
    /\ OldPending # NoPending
    /\ OldPending.request.kind = "ask_user" \/ ~IsYes(turn.text)

\* C27: when a denial or a clarification answer was resumed and the turn
\* returned with a new pending record, the synthetic message of the
\* resumption is in the conversation history or in the new pending record
\* (read for histories short enough that trimming removed nothing).
C27_ResumptionMessageKept ==
    (/\ TurnOver
     /\ AnswerOrDenialResumed
     /\ saved.approvals.pending # NoPending
     /\ Len(RejectMsgs(ResumedHistory, "system")) < 2 * max_turns) =>
        \/ SyntheticMessage \in Range(ResumedHistory)
        \/ saved.approvals.pending.assistant = SyntheticMessage


---------------------------------------------------------------------------
(* C28.                                                                    *)

\* the position of the last assistant message with tool calls in a list
LastBatchAt(messages) ==
    CHOOSE i \in 0..Len(messages) :
        /\ i > 0 => (messages[i].role = "assistant" /\ messages[i].tool_calls # <<>>)
        /\ \A j \in (i + 1)..Len(messages) :
              ~(messages[j].role = "assistant" /\ messages[j].tool_calls # <<>>)
        /\ i = 0 => \A j \in 1..Len(messages) :
              ~(messages[j].role = "assistant" /\ messages[j].tool_calls # <<>>)

\* C28: after a tool batch was executed in a turn, the next request sent to
\* the model in that turn holds the assistant message with the batch's
\* tool_calls followed by one tool message per call of the batch, also when
\* a directory instruction message was injected for the batch or a skill
\* call of the batch injected a system message.
C28_ToolResultsReachModel ==
    (pc = "llm" /\ executed # <<>>) =>
        LET at == LastBatchAt(ctx.working) IN
        /\ at > 0
        /\ BatchAnswered(request.messages, ctx.working[at], ctx.working[at].tool_calls)


---------------------------------------------------------------------------
(* C29.                                                                    *)

\* the batch the persisted pending record was raised for
PendingBatch == saved.approvals.pending.assistant.tool_calls

\* the history of the conversation of the agent the pending record names
PendingHistory ==
    LET agent == saved.approvals.pending.agent
    IN  saved.agents[agent].conversations[saved.agents[agent].active].messages

\* the gate raises no request for any call of the batch and the batch asks
\* the user nothing
PassesGate(approvals, tool_calls) ==
    \A i \in 1..Len(tool_calls) :
        /\ MissingFor(approvals, tool_calls[i]) = NoRequest
        /\ tool_calls[i].name # "ask_user"

---------------------------------------------------------------------------
(* C30.                                                                    *)

\* the call is a run_shell or a filesystem call
Gated(call) == call.name = "run_shell" \/ call.name \in FsTools

\* the ledger covers the call: its (command, workdir) is approved, or the
\* directory the tool touches equals or lies under a directory of the ledger
Covered(approvals, call) ==
    LET args == LoadArgs(call.arguments) IN
    IF call.name = "run_shell"
    THEN _is_shell_approved(approvals, StrOf(args.command), args.workdir)
    ELSE execute_tool(call).touches =>
            UnderLedger(approvals.dirs, execute_tool(call).dir)

\* the request for the call
RequestOf(call) ==
    LET args == LoadArgs(call.arguments) IN
    IF call.name = "run_shell"
    THEN ShellRequest(StrOf(args.command), args.workdir)
    ELSE DirRequest(PathStr(_required_dir_for_tool(call.name, args).dir))

\* C30: _first_missing_approval returns none if and only if every run_shell
\* and filesystem call of the batch is covered by the ledger; otherwise it
\* returns the one request of the earliest call that is not covered; calls
\* to skill tools, ask_user, agent_ask, agent_set_model and
\* agent_recent_tool_calls never produce a request.
C30_FirstMissingApproval ==
    LET calls == gate.tool_calls
        open == {i \in 1..Len(calls) : Gated(calls[i]) /\ ~Covered(gate.approvals, calls[i])}
    IN  /\ gate.out = NoRequest <=> open = {}
        /\ open # {} =>
              gate.out = RequestOf(calls[CHOOSE i \in open : \A k \in open : i <= k])


---------------------------------------------------------------------------
(* C31.                                                                    *)

\* the filesystem calls of the batch that name a path
PathCalls ==
    {i \in 1..Len(gate.tool_calls) :
        /\ gate.tool_calls[i].name \in FsTools
        /\ IsNonEmptyStr(LoadArgs(gate.tool_calls[i].arguments).path)}

\* the canonical path the call names
TargetOf(call) == Resolve(LoadArgs(call.arguments).path.v)

\* the directory the claim asks approval for: the target of list_dir and
\* create_dir, the directory that holds the target of read_file and write_file
ScopeOf(call) ==
    IF call.name \in {"list_dir", "create_dir"} THEN TargetOf(call)
    ELSE SubSeq(TargetOf(call), 1, Len(TargetOf(call)) - 1)

\* d is the directory dir, or lies under it
Under(d, dir) == Len(dir) <= Len(d) /\ SubSeq(d, 1, Len(dir)) = dir

\* the canonical directories of the ledger
LedgerDirs(approvals) == {Resolve(d) : d \in approvals.dirs}

\* C31: a filesystem call with a path passes the gate exactly when its scope
\* (the canonical target of list_dir and create_dir, the canonical parent of
\* the target of read_file and write_file) equals or lies under a ledger
\* directory, and the request raised for it names that scope; a ledger
\* directory does not cover a call whose scope is a sibling or an ancestor
\* of it unless another ledger directory does.
C31_ApprovalScope ==
    /\ \A i \in PathCalls :
          LET call == gate.tool_calls[i]
              missing == MissingFor(gate.approvals, call)
              covered == \E dir \in LedgerDirs(gate.approvals) : Under(ScopeOf(call), dir)
          IN  /\ missing = NoRequest <=> covered
              /\ ~covered => missing = DirRequest(PathStr(ScopeOf(call)))
    /\ gate.out.kind = "dir" =>
          \E i \in PathCalls : gate.out.dir = PathStr(ScopeOf(gate.tool_calls[i]))
    /\ \A req \in gate.granted : \A i \in PathCalls :
          LET call == gate.tool_calls[i] IN
          (/\ req.kind = "dir"
           /\ gate.approvals.dirs = gate.before.dirs \cup {req.dir}
           /\ ~Under(ScopeOf(call), Resolve(req.dir))
           /\ MissingFor(gate.before, call) # NoRequest)
          => MissingFor(gate.approvals, call) # NoRequest

\* the parent of the file sub/f was approved for write_file; read_file of a
\* file under it passes, list_dir of the sibling other and of the ancestor
\* "." are still held
C31_Witness ==
    /\ DirRequest(PathStr(<<"w", "sub">>)) \in gate.granted
    /\ gate.before.dirs = {}
    /\ gate.tool_calls = <<WriteSub, ListOther, ListCwd>>
    /\ MissingFor(gate.approvals, WriteSub) = NoRequest
    /\ MissingFor(gate.approvals, ReadDeep) = NoRequest
    /\ gate.out = DirRequest(PathStr(<<"w", "other">>))
    /\ MissingFor(gate.approvals, ListCwd) = DirRequest(PathStr(<<"w">>))


---------------------------------------------------------------------------
(* C32.                                                                    *)

\* the two ledgers of an approvals record
LedgerOf(approvals) == [shell |-> approvals.shell, dirs |-> approvals.dirs]

\* the ledger entry the prompt of the request names
EntryOf(req) ==
    IF req.kind = "shell"
    THEN [shell |-> {req.command \o <<"\n">> \o
                        (IF req.workdir.t = "none" THEN <<>> ELSE req.workdir.v)},
          dirs |-> {}]
    ELSE [shell |-> {}, dirs |-> {req.dir}]

\* C32: no turn removes an entry from the shell or dirs ledger; a turn adds
\* an entry only when its text is 'y' (whatever its case and the whitespace
\* around it) while a shell or dir approval is pending, and then adds the
\* scope named in the pending request and nothing else; denials,
\* clarification answers, commands and fresh requests leave the ledgers as
\* they were.
C32_LedgerGrowsByApproval ==
    LET was == LedgerOf(turn.before.approvals)
        now == LedgerOf(state.approvals)
        req == OldPending.request
    IN  /\ was.shell \subseteq now.shell
        /\ was.dirs \subseteq now.dirs
        /\ LedgerOf(saved.approvals) \in {was, now}
        /\ now # was =>
              /\ IsYes(turn.text)
              /\ req.kind \in {"shell", "dir"}
              /\ now.shell = was.shell \cup EntryOf(req).shell
              /\ now.dirs = was.dirs \cup EntryOf(req).dirs

\* the ledger holds a command and a directory, each granted by a 'y'; the
\* turn that just returned was a denial and left both as they were
C32_Witness ==
    /\ TurnOver
    /\ OldPending.request.kind = "dir"
    /\ ~IsYes(turn.text)
    /\ saved.approvals.dirs # {}
    /\ LedgerOf(saved.approvals) = LedgerOf(turn.before.approvals)


---------------------------------------------------------------------------
(* C33.                                                                    *)

\* the distinct requests the calls of the batch raise under the ledger
OpenRequests(approvals, tool_calls) ==
    {MissingFor(approvals, tool_calls[i]) : i \in 1..Len(tool_calls)} \ {NoRequest}

\* the user answered the prompt of the batch with 'y'
YesStep == gate'.tool_calls = gate.tool_calls /\ gate'.granted # gate.granted

\* C33: every 'y' to the prompt of a suspended batch makes the prompted
\* request covered and leaves fewer distinct uncovered requests than before,
\* none of them new, so a batch with n uncovered scopes passes the gate (and
\* is executed) after at most n replies and no request is prompted twice;
\* the gate holds the batch exactly as long as such a request is left.
C33_ApprovalsProgress ==
    [][YesStep =>
          LET was == OpenRequests(gate.approvals, gate.tool_calls)
              now == OpenRequests(gate'.approvals, gate'.tool_calls)
          IN  /\ gate.out \in was
              /\ gate.out \notin now
              /\ now \subseteq was
              /\ Cardinality(now) < Cardinality(was)
              /\ gate'.out \notin gate'.granted
              /\ gate'.out = NoRequest <=> now = {}]_vars

\* the batch needed a command and two directories; three replies 'y' later
\* it passes the gate
C33_Witness ==
    /\ gate.tool_calls = <<Ls, ReadDeep, ListOther>>
    /\ Cardinality(gate.granted) = 3
    /\ gate.out = NoRequest


---------------------------------------------------------------------------
(* C34.                                                                    *)

\* the current turn ran a step of a plan
RanPlanStep == turn.n >= 1 /\ ctx.in_steps /\ ctx.step_responses # <<>>

\* the planner made a plan in the current turn
PlanCreated == ctx.route = "fresh" /\ ctx.plan_steps # <<>>

\* C34: a turn runs plan steps only for a plan created in that turn, or for
\* the plan whose step raised the pending approval or clarification the turn
\* resolves; steps an earlier plan left in the room state are never run.
C34_NoStalePlanReplay ==
    RanPlanStep => PlanCreated \/ (OldPending # NoPending /\ turn.in_step)


---------------------------------------------------------------------------
(* C35.                                                                    *)

\* the record of the call with this id among the calls the dispatcher ran
RanCall(id) == \E i \in 1..Len(executed) : executed[i].id = id /\ executed[i].ran

\* the tool messages behind position at of a message list
ToolsAfter(messages, at) ==
    SelectSeq(SubSeq(messages, at + 1, Len(messages)), LAMBDA m : m.role = "tool")

\* C35: the dispatcher never ends a turn with an exception; for the batch it
\* was handed it returns one tool message per call, in batch order, each
\* with the id of its call; a call whose arguments are not valid JSON gets
\* the result 'ERROR: invalid JSON arguments: <detail>' and its tool does not
\* run, while the other calls of the batch are executed.
C35_DispatcherTotal ==
    /\ ~(turn.raised /\ turn.why = "tool")
    /\ (pc = "llm" /\ executed # <<>>) =>
          LET at == LastBatchAt(ctx.working)
              batch == ctx.working[at].tool_calls
              tools == ToolsAfter(ctx.working, at)
          IN  /\ at > 0
              /\ Len(tools) = Len(batch)
              /\ \A i \in 1..Len(batch) :
                    /\ tools[i].tool_call_id = batch[i].id
                    /\ ~batch[i].arguments.valid =>
                          /\ tools[i].content = <<"ERROR: invalid JSON arguments: ", "detail">>
                          /\ ~RanCall(batch[i].id)
                    /\ (batch[i].arguments.valid /\ batch[i].name \in FsTools) =>
                          RanCall(batch[i].id)


---------------------------------------------------------------------------
(* C36.                                                                    *)

\* a is b with some elements left out: the elements of a are elements of b
\* in the order b has them
RECURSIVE IsSubsequence(_, _)
IsSubsequence(a, b) ==
    IF a = <<>> THEN TRUE
    ELSE IF b = <<>> THEN FALSE
    ELSE IF Head(a) = Head(b) THEN IsSubsequence(Tail(a), Tail(b))
    ELSE IsSubsequence(a, Tail(b))

\* C36: trimming never reorders messages: the messages that survive a trim
\* stand in the result in the order the input has them, also when a system
\* message stands behind user, assistant or tool messages in the input.
C36_TrimKeepsOrder == IsSubsequence(tOut, tIn)


---------------------------------------------------------------------------
(* C37.                                                                    *)

\* a is the end of b
IsSuffix(a, b) == Len(a) <= Len(b) /\ a = SubSeq(b, Len(b) - Len(a) + 1, Len(b))

\* the system messages and the recent non-system messages the first phase
\* of the trimmer keeps, and the two groups of the result
KeptSys == SelectMsgs(tIn, "system")
KeptOther == LastSlice(RejectMsgs(tIn, "system"), tCfg.max_turns * 2)
OutSys == SelectMsgs(tOut, "system")
OutOther == RejectMsgs(tOut, "system")

\* the running total of the eviction loop when sys and other are left
RunningTotal(sys, other) == SumTokens(sys) + SumTokens(other)

\* C37: when the kept messages exceed the input budget, the non-system
\* messages that survive are a suffix of the kept non-system messages and
\* the system messages that survive a suffix of the system messages; a
\* system message is removed only when no non-system message remains; and
\* eviction stops at the first fit: the list with the last evicted message
\* still in it was over the budget.
C37_EvictionOrder ==
    LET budget == input_budget(tCfg.model)
        evictedOther == Len(KeptOther) - Len(OutOther)
        evictedSys == Len(KeptSys) - Len(OutSys)
    IN  estimate_messages_tokens(KeptSys \o KeptOther) > budget =>
            /\ IsSuffix(OutOther, KeptOther)
            /\ IsSuffix(OutSys, KeptSys)
            /\ tOut = OutSys \o OutOther
            /\ evictedSys > 0 => OutOther = <<>>
            /\ evictedOther > 0 =>
                  RunningTotal(KeptSys, LastN(KeptOther, Len(OutOther) + 1)) > budget
            /\ evictedSys > 0 =>
                  RunningTotal(LastN(KeptSys, Len(OutSys) + 1), <<>>) > budget

\* every non-system message and one of two system messages were evicted
C37_Witness ==
    /\ estimate_messages_tokens(KeptSys \o KeptOther) > input_budget(tCfg.model)
    /\ KeptOther # <<>>
    /\ OutSys # <<>>
    /\ Len(OutSys) < Len(KeptSys)
    /\ OutOther = <<>>


---------------------------------------------------------------------------
(* C38.                                                                    *)

\* the system messages, user messages and assistant messages without
\* tool_calls of a list, in the order of the list
PlainMsgs(messages) ==
    SelectSeq(messages, LAMBDA m : \/ m.role \in {"system", "user"}
                                   \/ m.role = "assistant" /\ m.tool_calls = <<>>)

\* C38: every system message, user message and assistant message without
\* tool_calls of the input stands in the normalized list, in the order of
\* the input, and normalizing the normalized list returns it unchanged.
C38_NormalizeKeepsPlain ==
    /\ IsSubsequence(PlainMsgs(nIn), nOut)
    /\ _normalize_messages_for_llm(nOut) = nOut

\* an input that loses tool-call residue (an orphan tool message and the
\* calls of an unanswered assistant message) around two plain messages
C38_Witness ==
    /\ Len(PlainMsgs(nIn)) >= 2
    /\ \E i \in 1..Len(nIn) : nIn[i].role = "tool" /\ ~Answered(nIn, i)
    /\ \E i \in 1..Len(nIn) : nIn[i].tool_calls # <<>> /\ nIn[i].content # <<>>
    /\ Len(nOut) < Len(nIn)
    /\ Len(PlainMsgs(nOut)) > Len(PlainMsgs(nIn))


---------------------------------------------------------------------------
(* C39.                                                                    *)

\* the tool-call history of an agent namespace
HistoryOf(agent) == state.agents[agent].tool_history

\* C39: after every recording the history of an agent holds at most 50
\* entries, and they are the calls most recently emitted for that agent in
\* emission order: with k calls emitted, the last min(k, 50) of them, the
\* oldest gone first.  What was recorded for the other agent has no part in
\* it.
C39_HistoryBounded ==
    \A agent \in AGENT_NAMES :
        LET h == HistoryOf(agent)
            k == recorded[agent]
        IN  /\ Len(h) <= MaxToolHistory
            /\ Len(h) = (IF k <= MaxToolHistory THEN k ELSE MaxToolHistory)
            /\ \A i \in 1..Len(h) : h[i].id = k - Len(h) + i

\* one agent's history has lost its oldest entries, the other agent's
\* shorter history is whole
C39_Witness ==
    /\ recorded["main"] > MaxToolHistory + 1
    /\ Len(HistoryOf("main")) = MaxToolHistory
    /\ HistoryOf("main")[1].id = recorded["main"] - MaxToolHistory + 1
    /\ recorded["meta"] = 2
    /\ Len(HistoryOf("meta")) = 2


---------------------------------------------------------------------------
(* C40.                                                                    *)

\* the model of every conversation of every agent
ModelsOf(st) ==
    [a \in AGENT_NAMES |->
        [c \in DOMAIN st.agents[a].conversations |-> st.agents[a].conversations[c].model]]

\* a room state without the models of its conversations
WithoutModels(st) ==
    [st EXCEPT !.agents =
        [a \in AGENT_NAMES |->
            [st.agents[a] EXCEPT !.conversations =
                [c \in DOMAIN st.agents[a].conversations |->
                    [st.agents[a].conversations[c] EXCEPT !.model = ""]]]]]

\* agent_set_model calls: agent absent, given, padded and in capitals,
\* unknown, blank; model absent, available, padded, unknown
ModelCalls ==
    {SetModel(a, m) :
        a \in {NoneVal, StrVal(<<"meta">>), StrVal(<<" ", "Meta">>), StrVal(<<"ghost">>),
               StrVal(<<" ">>)},
        m \in {NoneVal, StrVal(<<"gpt-5.2">>), StrVal(<<"gpt-5.2", "\n">>),
               StrVal(<<"nope">>)}}

\* the agent a call names (main when it names none) and whether the call
\* names an agent of the room and an available model
NamedAgent(call) ==
    IF call.arguments.agent = NoneVal THEN "main"
    ELSE IF call.arguments.agent \in {StrVal(<<"meta">>), StrVal(<<" ", "Meta">>)} THEN "meta"
    ELSE "unknown"
NamedModel(call) ==
    IF call.arguments.model \in {StrVal(<<"gpt-5.2">>), StrVal(<<"gpt-5.2", "\n">>)}
    THEN "gpt-5.2" ELSE "unknown"

\* C40: every conversation's model is the default model or an available
\* model.  Over a turn, a conversation's model changes only to an available
\* model and only in the active conversation of its agent, for !model the
\* active agent's.  !model with an unknown name changes no model and
\* answers 'Unknown model'.  An agent_set_model call that names an agent of
\* the room and an available model sets the model of that agent's active
\* conversation and nothing else; a call with an unknown model or agent
\* leaves the state as it is and its result begins with ERROR.
C40_ModelValidated ==
    /\ \A a \in AGENT_NAMES : \A c \in DOMAIN state.agents[a].conversations :
          /\ ModelsOf(state)[a][c] \in {default_model} \cup available_models
          /\ (/\ c \in DOMAIN turn.before.agents[a].conversations
              /\ ModelsOf(state)[a][c] # ModelsOf(turn.before)[a][c]) =>
                 /\ ModelsOf(state)[a][c] \in available_models
                 /\ c = state.agents[a].active
                 /\ parse_command(turn.text).ok => a = turn.before.active_agent
    /\ (/\ TurnOver /\ parse_command(turn.text).ok
        /\ parse_command(turn.text).cmd = "model"
        /\ parse_command(turn.text).arg # NoArg
        /\ ~\E m \in available_models : parse_command(turn.text).arg = <<m>>) =>
          /\ ModelsOf(state) = ModelsOf(turn.before)
          /\ state.responses # <<>>
          /\ Head(Head(state.responses)) = "Unknown model "
    /\ \A call \in ModelCalls :
          LET after == CallEffect(state, call)
              agent == NamedAgent(call)
          IN  IF agent \in AGENT_NAMES /\ NamedModel(call) \in available_models
              THEN /\ WithoutModels(after) = WithoutModels(state)
                   /\ ModelsOf(after) =
                         [ModelsOf(state) EXCEPT ![agent][state.agents[agent].active] =
                                                     NamedModel(call)]
              ELSE /\ after = state
                   /\ Head(ResultOf(call)) \in {"ERROR: agent and model are required",
                                                "ERROR: unknown model "}

\* the tool has set the model of both agents' active conversations, and a
\* turn with an unknown model name has just left them as they were
C40_Witness ==
    /\ env.name = "tools"
    /\ TurnOver
    /\ turn.text = <<"!", "model", " ", "nope">>
    /\ Head(Head(state.responses)) = "Unknown model "
    /\ ModelsOf(state)["main"][1] = "gpt-5.2"
    /\ ModelsOf(state)["meta"][2] = "gpt-5.2"

=============================================================================
